---- MODULE Spec2Model ----
(***************************************************************************)
(* Pathfinder: validation sweep over a jagged character grid followed by   *)
(* a deterministic walk from '@' to 'x' (Pathfinder.findPath), on top of   *)
(* the bounds-safe Grid accessor (Grid.getPoint / getNeighbors /           *)
(* runGridProcessing).                                                     *)
(*                                                                         *)
(* Rows and columns are 0-based as in the source; a grid is a sequence of  *)
(* rows, a row a sequence of one-character strings.                        *)
(***************************************************************************)
EXTENDS Integers, Sequences, FiniteSets, TLC

VARIABLES
    grid,                \* Grid.grid: the string[][] handed to the constructor
    inst,                \* the Pathfinder instance whose findPath is running
    startPoint,          \* Pathfinder.startPoint, per instance
    endPoint,            \* Pathfinder.endPoint, per instance
    pc,                  \* position inside findPath: setup / walk / done / diverged
    sweepRow,            \* runGridProcessing: loop variable row
    sweepCol,            \* runGridProcessing: loop variable col
    row,                 \* walkPath: loop variable row
    col,                 \* walkPath: loop variable col
    lastDirection,       \* walkPath: lastDirection
    visitedCoordinates,  \* walkPath: visitedCoordinates
    directions,          \* history: lastDirection with which each trace entry was processed
    returned             \* history: what each finished findPath call produced

vars == <<grid, inst, startPoint, endPoint, pc, sweepRow, sweepCol, row, col,
          lastDirection, visitedCoordinates, directions, returned>>

-----------------------------------------------------------------------------
(* Program constants *)

HORIZONTAL_ROAD == "-"
VERTICAL_ROAD == "|"
CROSSROAD == "+"
START_CHARACTER == "@"
END_CHARACTER == "x"
REQUIRED_START_NEIGHBORS == 1
REQUIRED_TURN_NEIGHBORS == 2

UPPERCASE_ALPHABET ==
    {"A", "B", "C", "D", "E", "F", "G", "H", "I", "J", "K", "L", "M",
     "N", "O", "P", "Q", "R", "S", "T", "U", "V", "W", "X", "Y", "Z"}

\* /\s/ restricted to the white space that occurs in the inputs
WHITESPACE == {" ", "\t"}

\* /[A-Z@x\+\-\|\s]/.test(character), for a one-character string
VALID_GRID_CHARACTERS ==
    UPPERCASE_ALPHABET \cup {"@", "x", "+", "-", "|"} \cup WHITESPACE

UP == "up"
DOWN == "down"
LEFT == "left"
RIGHT == "right"
START == "start"
FINISH == "finish"
ERROR == "error"

Direction == {UP, DOWN, LEFT, RIGHT, START, FINISH, ERROR}

\* the empty string getPoint returns for a blank or out-of-bounds cell
BLANK == ""

\* the unset value of the optional fields startPoint / endPoint
Undefined == [defined |-> FALSE]

Point(r, c) == [defined |-> TRUE, row |-> r, col |-> c]

-----------------------------------------------------------------------------
(* Grid *)

\* getPoint without the test for the literal space
getPointOfStored(g, r, c) ==
    IF r < 0 \/ c < 0 THEN BLANK
    ELSE IF r >= Len(g) THEN BLANK
    ELSE IF c >= Len(g[r + 1]) THEN BLANK
    ELSE g[r + 1][c + 1]

\* Grid.getPoint
getPointOf(g, r, c) ==
    IF r < 0 \/ c < 0 THEN BLANK
    ELSE IF r >= Len(g) THEN BLANK
    ELSE IF c >= Len(g[r + 1]) THEN BLANK
    ELSE IF g[r + 1][c + 1] = " " THEN BLANK
    ELSE g[r + 1][c + 1]

getPoint(r, c) == getPointOf(grid, r, c)

\* Grid.getNeighbors
getNeighbors(r, c) ==
    [up    |-> getPoint(r - 1, c),
     down  |-> getPoint(r + 1, c),
     left  |-> getPoint(r, c - 1),
     right |-> getPoint(r, c + 1)]

\* JavaScript truthiness of a string: Boolean(s)
Truthy(s) == s # ""

\* Object.values(neighbors).filter(Boolean).length
CountNeighbors(n) ==
    (IF Truthy(n.up) THEN 1 ELSE 0) + (IF Truthy(n.down) THEN 1 ELSE 0)
    + (IF Truthy(n.left) THEN 1 ELSE 0) + (IF Truthy(n.right) THEN 1 ELSE 0)

-----------------------------------------------------------------------------
(* Pathfinder: connectivity predicates *)

\* isPointOnIntersection counting every non-blank neighbour
isPointOnIntersectionUndiscounted(r, c) == CountNeighbors(getNeighbors(r, c)) = 4

\* Pathfinder.isPointOnIntersection, the count it makes from the neighbours
numNeighbors(neighbors) ==
    CountNeighbors(neighbors)
    - (IF Truthy(neighbors.up) /\ neighbors.up = HORIZONTAL_ROAD THEN 1 ELSE 0)
    - (IF Truthy(neighbors.down) /\ neighbors.down = HORIZONTAL_ROAD THEN 1 ELSE 0)
    - (IF Truthy(neighbors.left) /\ neighbors.left = VERTICAL_ROAD THEN 1 ELSE 0)
    - (IF Truthy(neighbors.right) /\ neighbors.right = VERTICAL_ROAD THEN 1 ELSE 0)

\* Pathfinder.isPointOnIntersection
isPointOnIntersection(r, c) == numNeighbors(getNeighbors(r, c)) = 4

\* canMove without its test of a blank neighbour
canMoveOntoBlank(neighbor, road, r, c) == neighbor # road \/ isPointOnIntersection(r, c)

\* the body shared by canMoveRight/Left/Up/Down: neighbor is the character in
\* the direction of the move, at (r, c), and road the road that crosses it
canMove(neighbor, road, r, c) ==
    IF ~Truthy(neighbor) THEN FALSE
    ELSE neighbor # road \/ isPointOnIntersection(r, c)

\* Pathfinder.canMoveRight
canMoveRight(r, c) == canMove(getPoint(r, c + 1), VERTICAL_ROAD, r, c + 1)

\* Pathfinder.canMoveLeft
canMoveLeft(r, c) == canMove(getPoint(r, c - 1), VERTICAL_ROAD, r, c - 1)

\* Pathfinder.canMoveUp
canMoveUp(r, c) == canMove(getPoint(r - 1, c), HORIZONTAL_ROAD, r - 1, c)

\* Pathfinder.canMoveDown
canMoveDown(r, c) == canMove(getPoint(r + 1, c), HORIZONTAL_ROAD, r + 1, c)

\* Pathfinder.isVerticalStraightPath
isVerticalStraightPath(neighbors) ==
    Truthy(neighbors.up) /\ Truthy(neighbors.down)
    /\ ~Truthy(neighbors.left) /\ ~Truthy(neighbors.right)

\* Pathfinder.isHorizontalStraightPath
isHorizontalStraightPath(neighbors) ==
    ~Truthy(neighbors.up) /\ ~Truthy(neighbors.down)
    /\ Truthy(neighbors.left) /\ Truthy(neighbors.right)

-----------------------------------------------------------------------------
(* Pathfinder: validation of the start point and of a turn *)

\* a ProcessResult that succeeded: { isSuccessful: true }
Success == [isSuccessful |-> TRUE]

\* a ProcessResult that failed with row, col and message
FailureAt(r, c, message) ==
    [isSuccessful |-> FALSE,
     errorDetails |-> [row |-> r, col |-> c, errorMessage |-> message]]

\* a ProcessResult that failed with a message only
FailureMessage(message) ==
    [isSuccessful |-> FALSE, errorDetails |-> [errorMessage |-> message]]

\* neighborsCount without the discount of the neighbours that cannot be moved to
neighborsCountUndiscounted(neighbors, r, c) == CountNeighbors(neighbors)

\* neighborsCount of isStartPointValid and of checkTurn: the non-blank
\* neighbours, less those the walk cannot move to
neighborsCount(neighbors, r, c) ==
    CountNeighbors(neighbors)
    - (IF Truthy(neighbors.up) /\ ~canMoveUp(r, c) THEN 1 ELSE 0)
    - (IF Truthy(neighbors.down) /\ ~canMoveDown(r, c) THEN 1 ELSE 0)
    - (IF Truthy(neighbors.left) /\ ~canMoveLeft(r, c) THEN 1 ELSE 0)
    - (IF Truthy(neighbors.right) /\ ~canMoveRight(r, c) THEN 1 ELSE 0)

\* isStartPointValid accepting any count of neighbours
StartPointResultAccepting(count, r, c) == Success

\* the result isStartPointValid builds from its neighborsCount
StartPointResult(count, r, c) ==
    IF count # REQUIRED_START_NEIGHBORS
    THEN FailureAt(r, c,
             "Start point (" \o ToString(r) \o ", " \o ToString(c) \o ") has "
             \o ToString(count)
             \o " neighbors, but it must have exactly "
             \o ToString(REQUIRED_START_NEIGHBORS) \o ".")
    ELSE Success

\* Pathfinder.isStartPointValid
isStartPointValid(r, c) ==
    StartPointResult(neighborsCount(getNeighbors(r, c), r, c), r, c)

\* TurnResult without the count of the neighbours
TurnResultUncounted(neighbors, r, c) ==
    IF isVerticalStraightPath(neighbors) \/ isHorizontalStraightPath(neighbors)
    THEN FailureAt(r, c, "Turn must not be a straight path")
    ELSE Success

\* the result checkTurn builds from the neighbours
TurnResult(neighbors, r, c) ==
    IF neighborsCount(neighbors, r, c) # REQUIRED_TURN_NEIGHBORS
    THEN FailureAt(r, c, "Turn must have exactly 2 roads coming into it")
    ELSE IF isVerticalStraightPath(neighbors) \/ isHorizontalStraightPath(neighbors)
    THEN FailureAt(r, c, "Turn must not be a straight path")
    ELSE Success

\* Pathfinder.checkTurn
checkTurn(r, c) == TurnResult(getNeighbors(r, c), r, c)

-----------------------------------------------------------------------------
(* Pathfinder: the transition function of the walk *)

\* a MovementResult without errorMessage
Movement(r, c, direction) == [row |-> r, col |-> c, lastDirection |-> direction]

\* a MovementResult { row, col, lastDirection: Direction.ERROR, errorMessage }
MovementError(r, c, message) ==
    [row |-> r, col |-> c, lastDirection |-> ERROR, errorMessage |-> message]

\* JavaScript's  optionalMessage || fallback
OrElse(record, fallback) ==
    IF "errorMessage" \in DOMAIN record /\ Truthy(record.errorMessage)
    THEN record.errorMessage
    ELSE fallback

\* getStartingMove trying the four directions in the opposite order
getStartingMoveRightFirst(r, c) ==
    IF canMoveRight(r, c) THEN Movement(r, c + 1, RIGHT)
    ELSE IF canMoveLeft(r, c) THEN Movement(r, c - 1, LEFT)
    ELSE IF canMoveDown(r, c) THEN Movement(r + 1, c, DOWN)
    ELSE IF canMoveUp(r, c) THEN Movement(r - 1, c, UP)
    ELSE MovementError(r, c, "No valid path found at start")

\* getStartingMove leaving the direction of the walk as it found it
getStartingMoveUndirected(r, c) ==
    IF canMoveUp(r, c) THEN Movement(r - 1, c, START)
    ELSE IF canMoveDown(r, c) THEN Movement(r + 1, c, START)
    ELSE IF canMoveLeft(r, c) THEN Movement(r, c - 1, START)
    ELSE IF canMoveRight(r, c) THEN Movement(r, c + 1, START)
    ELSE MovementError(r, c, "No valid path found at start")

\* Pathfinder.getStartingMove
getStartingMove(r, c) ==
    IF canMoveUp(r, c) THEN Movement(r - 1, c, UP)
    ELSE IF canMoveDown(r, c) THEN Movement(r + 1, c, DOWN)
    ELSE IF canMoveLeft(r, c) THEN Movement(r, c - 1, LEFT)
    ELSE IF canMoveRight(r, c) THEN Movement(r, c + 1, RIGHT)
    ELSE MovementError(r, c, "No valid path found at start")

\* Pathfinder.handleStartCharacter
handleStartCharacter(r, c) == getStartingMove(r, c)

\* getNextTurnMove going on in the direction of arrival
getNextTurnMoveAhead(r, c, direction) ==
    IF direction = UP THEN Movement(r - 1, c, UP)
    ELSE IF direction = DOWN THEN Movement(r + 1, c, DOWN)
    ELSE IF direction = LEFT THEN Movement(r, c - 1, LEFT)
    ELSE Movement(r, c + 1, RIGHT)

\* Pathfinder.getNextTurnMove
getNextTurnMove(r, c, direction) ==
    IF direction \in {UP, DOWN}
    THEN IF canMoveLeft(r, c) THEN Movement(r, c - 1, LEFT)
         ELSE IF canMoveRight(r, c) THEN Movement(r, c + 1, RIGHT)
         ELSE Movement(r, c, ERROR)
    ELSE IF direction \in {LEFT, RIGHT}
    THEN IF canMoveUp(r, c) THEN Movement(r - 1, c, UP)
         ELSE IF canMoveDown(r, c) THEN Movement(r + 1, c, DOWN)
         ELSE Movement(r, c, ERROR)
    ELSE MovementError(r, c, "Invalid direction for turn")

\* what handleTurn returns, given the results of checkTurn and getNextTurnMove
TurnMove(turnValidity, nextMove, r, c) ==
    IF ~turnValidity.isSuccessful
    THEN MovementError(r, c, OrElse(turnValidity.errorDetails, "Invalid turn"))
    ELSE IF nextMove.lastDirection = ERROR
    THEN MovementError(r, c, "No valid path found at turn")
    ELSE nextMove

\* Pathfinder.handleTurn
handleTurn(r, c, direction) ==
    TurnMove(checkTurn(r, c), getNextTurnMove(r, c, direction), r, c)

\* getNextRoadMove moving on whenever the cell ahead is not blank
getNextRoadMoveOntoAny(r, c, direction) ==
    CASE direction = UP ->
            IF ~Truthy(getPoint(r - 1, c))
            THEN MovementError(r, c, "Cannot continue upward: path ends unexpectedly")
            ELSE Movement(r - 1, c, direction)
      [] direction = DOWN ->
            IF ~Truthy(getPoint(r + 1, c))
            THEN MovementError(r, c, "Cannot continue downward: path ends unexpectedly")
            ELSE Movement(r + 1, c, direction)
      [] direction = LEFT ->
            IF ~Truthy(getPoint(r, c - 1))
            THEN MovementError(r, c, "Cannot continue left: path ends unexpectedly")
            ELSE Movement(r, c - 1, direction)
      [] direction = RIGHT ->
            IF ~Truthy(getPoint(r, c + 1))
            THEN MovementError(r, c, "Cannot continue right: path ends unexpectedly")
            ELSE Movement(r, c + 1, direction)
      [] OTHER -> MovementError(r, c, "Invalid direction for road")

\* Pathfinder.getNextRoadMove
getNextRoadMove(r, c, direction) ==
    CASE direction = UP ->
            IF ~canMoveUp(r, c)
            THEN MovementError(r, c, "Cannot continue upward: path ends unexpectedly")
            ELSE Movement(r - 1, c, direction)
      [] direction = DOWN ->
            IF ~canMoveDown(r, c)
            THEN MovementError(r, c, "Cannot continue downward: path ends unexpectedly")
            ELSE Movement(r + 1, c, direction)
      [] direction = LEFT ->
            IF ~canMoveLeft(r, c)
            THEN MovementError(r, c, "Cannot continue left: path ends unexpectedly")
            ELSE Movement(r, c - 1, direction)
      [] direction = RIGHT ->
            IF ~canMoveRight(r, c)
            THEN MovementError(r, c, "Cannot continue right: path ends unexpectedly")
            ELSE Movement(r, c + 1, direction)
      [] OTHER -> MovementError(r, c, "Invalid direction for road")

\* handleRoad reporting its error at the cell it could not move to
handleRoadErrorAhead(r, c, direction) ==
    IF getNextRoadMove(r, c, direction).lastDirection # ERROR
    THEN getNextRoadMove(r, c, direction)
    ELSE MovementError(
             IF direction = UP THEN r - 1 ELSE IF direction = DOWN THEN r + 1 ELSE r,
             IF direction = LEFT THEN c - 1 ELSE IF direction = RIGHT THEN c + 1 ELSE c,
             getNextRoadMove(r, c, direction).errorMessage)

\* Pathfinder.handleRoad
handleRoad(r, c, direction) == getNextRoadMove(r, c, direction)

\* tryContinueDirection moving two cells on
tryContinueDirectionLeaping(r, c, direction) ==
    CASE direction = UP /\ canMoveUp(r, c) -> Movement(r - 2, c, direction)
      [] direction = DOWN /\ canMoveDown(r, c) -> Movement(r + 2, c, direction)
      [] direction = LEFT /\ canMoveLeft(r, c) -> Movement(r, c - 2, direction)
      [] direction = RIGHT /\ canMoveRight(r, c) -> Movement(r, c + 2, direction)
      [] OTHER -> Movement(r, c, ERROR)

\* Pathfinder.tryContinueDirection
tryContinueDirection(r, c, direction) ==
    CASE direction = UP /\ canMoveUp(r, c) -> Movement(r - 1, c, direction)
      [] direction = DOWN /\ canMoveDown(r, c) -> Movement(r + 1, c, direction)
      [] direction = LEFT /\ canMoveLeft(r, c) -> Movement(r, c - 1, direction)
      [] direction = RIGHT /\ canMoveRight(r, c) -> Movement(r, c + 1, direction)
      [] OTHER -> Movement(r, c, ERROR)

\* tryTurnFromDirection without its turns: a letter is only ever passed straight
tryTurnFromDirectionNever(r, c, direction) == Movement(r, c, ERROR)

\* tryTurnFromDirection with the two cases of its switch exchanged
tryTurnFromDirectionSwapped(r, c, direction) ==
    IF direction \in {LEFT, RIGHT}
    THEN IF canMoveLeft(r, c) THEN Movement(r, c - 1, LEFT)
         ELSE IF canMoveRight(r, c) THEN Movement(r, c + 1, RIGHT)
         ELSE Movement(r, c, ERROR)
    ELSE IF direction \in {UP, DOWN}
    THEN IF canMoveUp(r, c) THEN Movement(r - 1, c, UP)
         ELSE IF canMoveDown(r, c) THEN Movement(r + 1, c, DOWN)
         ELSE Movement(r, c, ERROR)
    ELSE Movement(r, c, ERROR)

\* tryTurnFromDirection going back where it finds no side to turn to
tryTurnFromDirectionOrBack(r, c, direction) ==
    IF direction \in {UP, DOWN}
    THEN IF canMoveLeft(r, c) THEN Movement(r, c - 1, LEFT)
         ELSE IF canMoveRight(r, c) THEN Movement(r, c + 1, RIGHT)
         ELSE IF direction = UP THEN Movement(r + 1, c, DOWN)
         ELSE Movement(r - 1, c, UP)
    ELSE IF direction \in {LEFT, RIGHT}
    THEN IF canMoveUp(r, c) THEN Movement(r - 1, c, UP)
         ELSE IF canMoveDown(r, c) THEN Movement(r + 1, c, DOWN)
         ELSE IF direction = LEFT THEN Movement(r, c + 1, RIGHT)
         ELSE Movement(r, c - 1, LEFT)
    ELSE Movement(r, c, ERROR)

\* Pathfinder.tryTurnFromDirection
tryTurnFromDirection(r, c, direction) ==
    IF direction \in {UP, DOWN}
    THEN IF canMoveLeft(r, c) THEN Movement(r, c - 1, LEFT)
         ELSE IF canMoveRight(r, c) THEN Movement(r, c + 1, RIGHT)
         ELSE Movement(r, c, ERROR)
    ELSE IF direction \in {LEFT, RIGHT}
    THEN IF canMoveUp(r, c) THEN Movement(r - 1, c, UP)
         ELSE IF canMoveDown(r, c) THEN Movement(r + 1, c, DOWN)
         ELSE Movement(r, c, ERROR)
    ELSE Movement(r, c, ERROR)

\* LetterMove preferring the turn to the move straight on
LetterMoveTurnFirst(continuedMove, turnedMove, r, c) ==
    IF turnedMove.lastDirection # ERROR THEN turnedMove
    ELSE IF continuedMove.lastDirection # ERROR THEN continuedMove
    ELSE Movement(r, c, ERROR)

\* what getNextLetterMove returns, given the two attempts
LetterMove(continuedMove, turnedMove, r, c) ==
    IF continuedMove.lastDirection # ERROR THEN continuedMove
    ELSE IF turnedMove.lastDirection # ERROR THEN turnedMove
    ELSE Movement(r, c, ERROR)

\* Pathfinder.getNextLetterMove
getNextLetterMove(r, c, direction) ==
    LetterMove(tryContinueDirection(r, c, direction),
               tryTurnFromDirection(r, c, direction), r, c)

\* what handleLetter returns, given the result of getNextLetterMove
LetterResult(nextMove, r, c) ==
    IF nextMove.lastDirection = ERROR
    THEN MovementError(r, c, "No valid path found at letter")
    ELSE nextMove

\* Pathfinder.handleLetter
handleLetter(r, c, direction) ==
    LetterResult(getNextLetterMove(r, c, direction), r, c)

\* the switch of Pathfinder.move on the current character
dispatch(currentCharacter, r, c, direction) ==
    CASE currentCharacter = START_CHARACTER -> handleStartCharacter(r, c)
      [] currentCharacter = CROSSROAD -> handleTurn(r, c, direction)
      [] currentCharacter \in {HORIZONTAL_ROAD, VERTICAL_ROAD} ->
            handleRoad(r, c, direction)
      [] currentCharacter = END_CHARACTER -> Movement(r, c, FINISH)
      [] OTHER -> handleLetter(r, c, direction)

\* move without the END_CHARACTER case of its switch: 'x' falls to the default
moveWithoutEnd(r, c, direction) ==
    IF getPoint(r, c) = END_CHARACTER
    THEN handleLetter(r, c, direction)
    ELSE dispatch(getPoint(r, c), r, c, direction)

\* Pathfinder.move
move(r, c, direction) == dispatch(getPoint(r, c), r, c, direction)

\* isNotDuplicate comparing the characters instead of the coordinates
isNotDuplicateByCharacter(letters, current) ==
    ~\E i \in 1..Len(letters) : letters[i].character = current.character

\* isNotDuplicate of Pathfinder.getCollectedLetters
isNotDuplicate(letters, current) ==
    ~\E i \in 1..Len(letters) :
        letters[i].row = current.row /\ letters[i].col = current.col

\* the reduce step of Pathfinder.getCollectedLetters
CollectStep(letters, current) ==
    IF current.character \in UPPERCASE_ALPHABET /\ isNotDuplicate(letters, current)
    THEN Append(letters, current)
    ELSE letters

RECURSIVE UniqueLetters(_)
\* visitedCoordinates.reduce(..., []) of Pathfinder.getCollectedLetters
UniqueLetters(visited) ==
    IF visited = <<>> THEN <<>>
    ELSE CollectStep(UniqueLetters(SubSeq(visited, 1, Len(visited) - 1)),
                     visited[Len(visited)])

RECURSIVE Join(_)
\* uniqueLetters.map(x => x.character).join('')
Join(letters) ==
    IF letters = <<>> THEN ""
    ELSE Join(SubSeq(letters, 1, Len(letters) - 1)) \o letters[Len(letters)].character

\* Pathfinder.getCollectedLetters
getCollectedLetters(visited) == Join(UniqueLetters(visited))

-----------------------------------------------------------------------------
(* Inputs: the grids findPath is run on *)

\* line.split(''): a row of text as a row of one-character cells
Split(line) == [i \in 1..Len(line) |-> SubSeq(line, i, i)]

\* text.split('\n').map(line => line.split(''))
Rows(lines) == [i \in 1..Len(lines) |-> Split(lines[i])]

\* examples.ts VALID_EXAMPLES, in order
VALID_EXAMPLES ==
    << Rows(<<"@---A---+",
              "        |",
              "x-B-+   C",
              "    |   |",
              "    +---+">>),
       Rows(<<"@",
              "| +-C--+",
              "A |    |",
              "+---B--+",
              "  |      x",
              "  |      |",
              "  +---D--+">>),
       Rows(<<"@---A---+",
              "        |",
              "x-B-+   |",
              "    |   |",
              "    +---C">>),
       Rows(<<"     +-O-N-+",
              "     |     |",
              "     |   +-I-+",
              " @-G-O-+ | | |",
              "     | | +-+ E",
              "     +-+     S",
              "             |",
              "             x">>),
       Rows(<<" +-L-+",
              " |  +A-+",
              "@B+ ++ H",
              " ++    x">>),
       Rows(<<"  @-A--+",
              "       |",
              "       +-B--x-C--D">>) >>

\* examples.ts INVALID_EXAMPLES, in order
INVALID_EXAMPLES ==
    << Rows(<<"@--A-@-+",
              "       |",
              " x-B-+ C",
              "     | |",
              "     +-+">>),
       Rows(<<"@--A---+",
              "       |",
              " B-+   C",
              "   |   |",
              "   +---+">>),
       Rows(<<"---A---+",
              "       |",
              "x-B-+  C",
              "    |  |",
              "    +--+">>),
       Rows(<<"@-A-+-B-x">>),
       Rows(<<"@--A-+",
              "     |",
              "",
              "     B-x">>),
       Rows(<<"       x-B",
              "         |",
              "  @--A---+",
              "         |",
              "    x+   C",
              "     |   |",
              "     +---+">>),
       Rows(<<"x-B-@-A-x">>),
       Rows(<<"@--A--?--+",
              "         |",
              "     +---B",
              "     |",
              "     x">>) >>

\* the expectations of the 'Valid paths' tests, one per valid example
validTests ==
    << [expectedLetters |-> "ACB", expectedPath |-> "@---A---+|C|+---+|+-B-x"],
       [expectedLetters |-> "ABCD", expectedPath |-> "@|A+---B--+|+--C-+|-||+---D--+|x"],
       [expectedLetters |-> "ACB", expectedPath |-> "@---A---+|||C---+|+-B-x"],
       [expectedLetters |-> "GOONIES",
        expectedPath |-> "@-G-O-+|+-+|O||+-O-N-+|I|+-+|+-I-+|ES|x"],
       [expectedLetters |-> "BLAH", expectedPath |-> "@B+++B|+-L-+A+++A-+Hx"],
       [expectedLetters |-> "AB", expectedPath |-> "@-A--+|+-B--x"] >>

\* diagrams that pass the validation of setup and hold a closed circuit
LoopGrids ==
    { Rows(<<"@AA",
             " AA",
             "x">>),
      Rows(<<"@-A-+",
             "  | |",
             "x +-+">>),
      Rows(<<"x",
             "",
             "@-A-+",
             "  | |",
             "  B-+">>) }

\* further diagrams: a rectangular route, a one-column route, a lone '@', a
\* tab among the roads, a four-way '+', a road crossed at a letter's column,
\* an empty input, start points with two, three and four tiles around them,
\* some of them roads of the other axis, a second '@' between roads, and
\* start points next to a road of the other axis that is itself crossed
OtherGrids ==
    { Rows(<<"@---+",
             "    |",
             "x---+">>),
      Rows(<<"@", "|", "x">>),
      Rows(<<"@">>),
      Rows(<<"@-\t-x">>),
      Rows(<<"  |",
             "@-+-x",
             "  |">>),
      Rows(<<"  A",
             "  |",
             "@-|-A-x",
             "  |",
             "  x">>),
      <<>>,
      Rows(<<"x@-">>),
      Rows(<<" -",
             " @x">>),
      Rows(<<"|@",
             " x">>),
      Rows(<<" A",
             "-@-",
             " x">>),
      Rows(<<" |",
             "-@-",
             " x">>),
      Rows(<<" -",
             "|@|",
             " x">>),
      Rows(<<"@-+",
             " @|",
             "x-+">>),
      Rows(<<" A",
             "A-A",
             " @",
             "  x">>),
      Rows(<<" A",
             "@|A",
             "xA">>) }

\* turns, roads and letters next to roads of the other axis, crossed or not
JunctionGrids ==
    { Rows(<<"  A",
             "@+|x",
             "  A">>),
      Rows(<<"  @",
             " A|",
             "A|+",
             " x">>),
      Rows(<<"@-|-x">>),
      Rows(<<"@-x",
             "",
             "-+-">>),
      Rows(<<" @",
             " |",
             "|+",
             " |",
             " x">>) }

Range(seq) == {seq[i] : i \in DOMAIN seq}

ExampleGrids ==
    Range(VALID_EXAMPLES) \cup Range(INVALID_EXAMPLES) \cup LoopGrids \cup OtherGrids
    \cup JunctionGrids

\* every diagram of at most MaxTiles non-blank cells inside a 3 x 3 box,
\* drawn with the characters of SmallAlphabet
MaxTiles == 2

BoxCells == (0..2) \X (0..2)

SmallAlphabet == {"@", "x", "+", "-", "|", "A", "?"}

SmallGrid(tiles) ==
    [r \in 1..3 |->
        [c \in 1..3 |->
            IF <<r - 1, c - 1>> \in DOMAIN tiles THEN tiles[<<r - 1, c - 1>>] ELSE " "]]

\* every diagram drawn along a route of at most MaxRoute moves that never
\* comes back to a cell it has been on: '@' on the first cell, 'x' on the
\* last, and on each cell between them a letter or the tile of its shape
\* ('-' or '|' where the route runs straight, '+' where it turns)
MaxRoute == 4

Moves == {UP, DOWN, LEFT, RIGHT}

RowAfter(r, direction) ==
    IF direction = UP THEN r - 1 ELSE IF direction = DOWN THEN r + 1 ELSE r

ColAfter(c, direction) ==
    IF direction = LEFT THEN c - 1 ELSE IF direction = RIGHT THEN c + 1 ELSE c

Shift(position, direction) ==
    <<RowAfter(position[1], direction), ColAfter(position[2], direction)>>

RECURSIVE PositionAfter(_, _)
\* where the route stands after its first k moves, from (0, 0)
PositionAfter(moves, k) ==
    IF k = 0 THEN <<0, 0>> ELSE Shift(PositionAfter(moves, k - 1), moves[k])

RoutePath(moves) == [k \in 0..Len(moves) |-> PositionAfter(moves, k)]

SelfAvoiding(path) ==
    \A i, j \in DOMAIN path : i # j => path[i] # path[j]

RouteLetters == "ABCDEFGHIJKLMNOPQRSTUVWXYZ"

RouteTile(moves, lettered, k) ==
    IF k = 0 THEN START_CHARACTER
    ELSE IF k = Len(moves) THEN END_CHARACTER
    ELSE IF k \in lettered THEN SubSeq(RouteLetters, k, k)
    ELSE IF moves[k] # moves[k + 1] THEN CROSSROAD
    ELSE IF moves[k] \in {LEFT, RIGHT} THEN HORIZONTAL_ROAD
    ELSE VERTICAL_ROAD

Min(S) == CHOOSE x \in S : \A y \in S : x <= y

Max(S) == CHOOSE x \in S : \A y \in S : x >= y

\* the text of the diagram: as many rows as the route spans, each as long as
\* its last tile, the leftmost tile in column 0
DrawnGrid(path, moves, lettered, top, left) ==
    [r \in 1..(Max({path[k][1] : k \in DOMAIN path}) - top + 1) |->
        [c \in 1..(Max({path[k][2] : k \in {j \in DOMAIN path : path[j][1] = r - 1 + top}})
                   - left + 1) |->
            IF \E k \in DOMAIN path : path[k] = <<r - 1 + top, c - 1 + left>>
            THEN RouteTile(moves, lettered,
                           CHOOSE k \in DOMAIN path : path[k] = <<r - 1 + top, c - 1 + left>>)
            ELSE " "]]

RouteGrid(moves, lettered) ==
    DrawnGrid(RoutePath(moves), moves, lettered,
              Min({RoutePath(moves)[k][1] : k \in 0..Len(moves)}),
              Min({RoutePath(moves)[k][2] : k \in 0..Len(moves)}))

-----------------------------------------------------------------------------
(* Grid.runGridProcessing as Pathfinder.setup drives it *)

\* the most calls of findPath a behaviour makes
MaxCalls == 2

\* the Pathfinder objects a behaviour can construct, in order of construction
Instances == 1..MaxCalls

\* the keys of characterProcesses built by Pathfinder.setupProcesses
characterProcesses == {START_CHARACTER, END_CHARACTER}

\* the keys of regExpProcesses built by Pathfinder.setupProcesses: none
regExpProcesses == {}

RECURSIVE NextCell(_, _)
\* the next cell, at or after (r, c) in the order of the two nested loops, at
\* which the sweep does anything: a non-blank cell that fails the grammar or
\* has a process registered; the iterations before it change nothing
NextCell(r, c) ==
    IF r >= Len(grid) THEN [found |-> FALSE]
    ELSE IF c >= Len(grid[r + 1]) THEN NextCell(r + 1, 0)
    ELSE LET character == getPoint(r, c)
         IN  IF character = BLANK THEN NextCell(r, c + 1)
             ELSE IF character \notin VALID_GRID_CHARACTERS
                     \/ character \in characterProcesses
                     \/ \E regExp \in regExpProcesses : character \in regExp
             THEN [found |-> TRUE, row |-> r, col |-> c, character |-> character]
             ELSE NextCell(r, c + 1)

\* findPath returns value
Return(value) ==
    /\ returned' = Append(returned, [inst |-> inst, value |-> value])
    /\ pc' = "done"

\* runGridProcessing: the cell fails the grammar
GrammarErrorAt(cell) ==
    /\ cell.found
    /\ cell.character \notin VALID_GRID_CHARACTERS
    /\ Return(FailureAt(cell.row, cell.col,
                        "Invalid character found: " \o cell.character))
    /\ sweepRow' = cell.row
    /\ sweepCol' = cell.col
    /\ UNCHANGED <<grid, inst, startPoint, endPoint, row, col, lastDirection,
                   visitedCoordinates, directions>>

\* the '@' process passing over a second '@' as if it were no error
DuplicateStartAtIgnored(cell) ==
    /\ cell.found
    /\ cell.character = START_CHARACTER
    /\ startPoint[inst].defined
    /\ sweepRow' = cell.row
    /\ sweepCol' = cell.col + 1
    /\ UNCHANGED <<grid, inst, startPoint, endPoint, pc, row, col, lastDirection,
                   visitedCoordinates, directions, returned>>

\* the '@' process recording the second '@' before it reports it
DuplicateStartAtRecording(cell) ==
    /\ cell.found
    /\ cell.character = START_CHARACTER
    /\ startPoint[inst].defined
    /\ startPoint' = [startPoint EXCEPT ![inst] = Point(cell.row, cell.col)]
    /\ Return(FailureMessage("There are more than one start points."))
    /\ sweepRow' = cell.row
    /\ sweepCol' = cell.col
    /\ UNCHANGED <<grid, inst, endPoint, row, col, lastDirection,
                   visitedCoordinates, directions>>

\* the '@' process of setupProcesses, run by runGridProcessing: a start point
\* is already recorded
DuplicateStartAt(cell) ==
    /\ cell.found
    /\ cell.character = START_CHARACTER
    /\ startPoint[inst].defined
    /\ Return([isSuccessful |-> FALSE,
               errorDetails |->
                   FailureMessage("There are more than one start points.").errorDetails])
    /\ sweepRow' = cell.row
    /\ sweepCol' = cell.col
    /\ UNCHANGED <<grid, inst, startPoint, endPoint, row, col, lastDirection,
                   visitedCoordinates, directions>>

\* the '@' process: the start point is recorded; runGridProcessing returns at
\* once if isStartPointValid fails and goes on to the next cell otherwise
RecordStartAt(cell, result) ==
    /\ cell.found
    /\ cell.character = START_CHARACTER
    /\ ~startPoint[inst].defined
    /\ startPoint' = [startPoint EXCEPT ![inst] = Point(cell.row, cell.col)]
    /\ sweepRow' = cell.row
    /\ IF ~result.isSuccessful
       THEN /\ Return([isSuccessful |-> FALSE, errorDetails |-> result.errorDetails])
            /\ sweepCol' = cell.col
       ELSE /\ sweepCol' = cell.col + 1
            /\ UNCHANGED <<pc, returned>>
    /\ UNCHANGED <<grid, inst, endPoint, row, col, lastDirection,
                   visitedCoordinates, directions>>

\* the 'x' process keeping the first end point it recorded
RecordEndAtFirstOnly(cell) ==
    /\ cell.found
    /\ cell.character = END_CHARACTER
    /\ endPoint' = IF endPoint[inst].defined THEN endPoint
                   ELSE [endPoint EXCEPT ![inst] = Point(cell.row, cell.col)]
    /\ sweepRow' = cell.row
    /\ sweepCol' = cell.col + 1
    /\ UNCHANGED <<grid, inst, startPoint, pc, row, col, lastDirection,
                   visitedCoordinates, directions, returned>>

\* the 'x' process of setupProcesses
RecordEndAt(cell) ==
    /\ cell.found
    /\ cell.character = END_CHARACTER
    /\ endPoint' = [endPoint EXCEPT ![inst] = Point(cell.row, cell.col)]
    /\ sweepRow' = cell.row
    /\ sweepCol' = cell.col + 1
    /\ UNCHANGED <<grid, inst, startPoint, pc, row, col, lastDirection,
                   visitedCoordinates, directions, returned>>

\* setup reporting a missing point with one message for the three cases
PointNotFoundAtOneMessage(cell) ==
    /\ ~cell.found
    /\ ~startPoint[inst].defined \/ ~endPoint[inst].defined
    /\ Return(FailureMessage("Start or end point not found"))
    /\ sweepRow' = Len(grid)
    /\ sweepCol' = 0
    /\ UNCHANGED <<grid, inst, startPoint, endPoint, row, col, lastDirection,
                   visitedCoordinates, directions>>

\* Pathfinder.setup after a sweep without error: a point is missing
PointNotFoundAt(cell) ==
    /\ ~cell.found
    /\ ~startPoint[inst].defined \/ ~endPoint[inst].defined
    /\ Return(FailureMessage(
           IF startPoint[inst].defined THEN "End point not found"
           ELSE IF endPoint[inst].defined THEN "Start point not found"
           ELSE "Start and end point not found"))
    /\ sweepRow' = Len(grid)
    /\ sweepCol' = 0
    /\ UNCHANGED <<grid, inst, startPoint, endPoint, row, col, lastDirection,
                   visitedCoordinates, directions>>

\* setup succeeding without its check of endPoint
BeginWalkAtWithoutEnd(cell) ==
    /\ ~cell.found
    /\ startPoint[inst].defined
    /\ pc' = "walk"
    /\ sweepRow' = Len(grid)
    /\ sweepCol' = 0
    /\ row' = startPoint[inst].row
    /\ col' = startPoint[inst].col
    /\ lastDirection' = START
    /\ visitedCoordinates' = <<>>
    /\ directions' = <<>>
    /\ UNCHANGED <<grid, inst, startPoint, endPoint, returned>>

\* findPath entering walkPath with startPoint taken out of its field
BeginWalkAtConsuming(cell) ==
    /\ ~cell.found
    /\ startPoint[inst].defined /\ endPoint[inst].defined
    /\ pc' = "walk"
    /\ sweepRow' = Len(grid)
    /\ sweepCol' = 0
    /\ row' = startPoint[inst].row
    /\ col' = startPoint[inst].col
    /\ startPoint' = [startPoint EXCEPT ![inst] = Undefined]
    /\ lastDirection' = START
    /\ visitedCoordinates' = <<>>
    /\ directions' = <<>>
    /\ UNCHANGED <<grid, inst, endPoint, returned>>

\* Pathfinder.setup succeeds and findPath enters walkPath
BeginWalkAt(cell) ==
    /\ ~cell.found
    /\ startPoint[inst].defined /\ endPoint[inst].defined
    /\ pc' = "walk"
    /\ sweepRow' = Len(grid)
    /\ sweepCol' = 0
    /\ row' = startPoint[inst].row
    /\ col' = startPoint[inst].col
    /\ lastDirection' = START
    /\ visitedCoordinates' = <<>>
    /\ directions' = <<>>
    /\ UNCHANGED <<grid, inst, startPoint, endPoint, returned>>

\* the steps of Pathfinder.setup, at the cell where the running sweep acts next
GrammarError == pc = "setup" /\ GrammarErrorAt(NextCell(sweepRow, sweepCol))

DuplicateStart == pc = "setup" /\ DuplicateStartAt(NextCell(sweepRow, sweepCol))

RecordStart ==
    /\ pc = "setup"
    /\ RecordStartAt(NextCell(sweepRow, sweepCol),
                     isStartPointValid(NextCell(sweepRow, sweepCol).row,
                                       NextCell(sweepRow, sweepCol).col))

RecordEnd == pc = "setup" /\ RecordEndAt(NextCell(sweepRow, sweepCol))

PointNotFound == pc = "setup" /\ PointNotFoundAt(NextCell(sweepRow, sweepCol))

BeginWalk == pc = "setup" /\ BeginWalkAt(NextCell(sweepRow, sweepCol))

-----------------------------------------------------------------------------
(* Pathfinder.walkPath: one iteration of its loop per step *)

\* the entry the running iteration pushes onto visitedCoordinates
CurrentEntry == [row |-> row, col |-> col, character |-> getPoint(row, col)]

\* the tile about to be processed was already processed at this position with
\* this lastDirection: move is a function of (row, col, lastDirection) and of
\* the immutable grid, so the loop repeats from here on and never exits
Repeating ==
    \E i \in 1..Len(visitedCoordinates) :
        /\ visitedCoordinates[i].row = row
        /\ visitedCoordinates[i].col = col
        /\ directions[i] = lastDirection

\* customData of the result of walkPath
PathResult(visited) ==
    [visitedCoordinates |-> visited, collectedLetters |-> getCollectedLetters(visited)]

\* one iteration of the loop of walkPath, newValues being what move returned
Iteration(newValues) ==
    /\ pc = "walk"
    /\ ~Repeating
    /\ visitedCoordinates' = Append(visitedCoordinates, CurrentEntry)
    /\ directions' = Append(directions, lastDirection)
    /\ IF newValues.lastDirection = ERROR
       THEN /\ Return([isSuccessful |-> FALSE,
                       customData |-> PathResult(visitedCoordinates'),
                       errorDetails |->
                           [row |-> newValues.row,
                            col |-> newValues.col,
                            errorMessage |-> OrElse(newValues, "Invalid path")]])
            /\ UNCHANGED <<row, col, lastDirection>>
       ELSE /\ row' = newValues.row
            /\ col' = newValues.col
            /\ lastDirection' = newValues.lastDirection
            /\ IF newValues.lastDirection = FINISH
               THEN Return([isSuccessful |-> TRUE,
                            customData |-> PathResult(visitedCoordinates')])
               ELSE UNCHANGED <<pc, returned>>
    /\ UNCHANGED <<grid, inst, startPoint, endPoint, sweepRow, sweepCol>>

\* the tile under the walk, by the case of the switch of Pathfinder.move
Tile == getPoint(row, col)

\* an iteration on the '@' tile
WalkStart ==
    /\ pc = "walk"
    /\ Tile = START_CHARACTER
    /\ Iteration(move(row, col, lastDirection))

\* an iteration on a '+' tile
WalkTurn ==
    /\ pc = "walk"
    /\ Tile = CROSSROAD
    /\ Iteration(move(row, col, lastDirection))

\* an iteration on a '-' or '|' tile
WalkRoad ==
    /\ pc = "walk"
    /\ Tile \in {HORIZONTAL_ROAD, VERTICAL_ROAD}
    /\ Iteration(move(row, col, lastDirection))

\* an iteration on the 'x' tile: the loop exits and walkPath returns
WalkEnd ==
    /\ pc = "walk"
    /\ Tile = END_CHARACTER
    /\ Iteration(move(row, col, lastDirection))

\* an iteration on any other tile, a letter
WalkLetter ==
    /\ pc = "walk"
    /\ Tile \notin {START_CHARACTER, CROSSROAD, HORIZONTAL_ROAD, VERTICAL_ROAD,
                    END_CHARACTER}
    /\ Iteration(move(row, col, lastDirection))

\* the loop has come back to a state it was in: it runs on without end,
\* pushing onto visitedCoordinates until the allocation fails, and findPath
\* returns nothing
WalkDiverges ==
    /\ pc = "walk"
    /\ Repeating
    /\ pc' = "diverged"
    /\ UNCHANGED <<grid, inst, startPoint, endPoint, sweepRow, sweepCol, row, col,
                   lastDirection, visitedCoordinates, directions, returned>>

-----------------------------------------------------------------------------
(* Specifications *)

\* the state after  new Pathfinder(gridParam)  and the call of findPath
Fresh ==
    /\ inst = 1
    /\ startPoint = [i \in Instances |-> Undefined]
    /\ endPoint = [i \in Instances |-> Undefined]
    /\ pc = "setup"
    /\ sweepRow = 0
    /\ sweepCol = 0
    /\ row = 0
    /\ col = 0
    /\ lastDirection = START
    /\ visitedCoordinates = <<>>
    /\ directions = <<>>
    /\ returned = <<>>

Init ==
    /\ \/ grid \in ExampleGrids
       \/ \E cells \in SUBSET BoxCells :
              /\ Cardinality(cells) <= MaxTiles
              /\ \E tiles \in [cells -> SmallAlphabet] : grid = SmallGrid(tiles)
       \/ \E n \in 1..MaxRoute :
              \E moves \in [1..n -> Moves] :
                  /\ SelfAvoiding(RoutePath(moves))
                  /\ \E lettered \in SUBSET (1..(n - 1)) : grid = RouteGrid(moves, lettered)
    /\ Fresh

Next ==
    \/ GrammarError
    \/ DuplicateStart
    \/ RecordStart
    \/ RecordEnd
    \/ PointNotFound
    \/ BeginWalk
    \/ WalkStart
    \/ WalkTurn
    \/ WalkRoad
    \/ WalkEnd
    \/ WalkLetter
    \/ WalkDiverges

Spec == Init /\ [][Next]_vars

\* the fields of every Pathfinder kept in one place, as static fields are
constructorSharingFields(points, i) == [points EXCEPT ![i] = points[i - 1]]

\* the fields startPoint and endPoint of the i-th Pathfinder as its
\* construction leaves them: without a value
constructor(points, i) == [points EXCEPT ![i] = Undefined]

\* the locals of a findPath call as it begins
BeginCall ==
    /\ pc' = "setup"
    /\ sweepRow' = 0
    /\ sweepCol' = 0
    /\ row' = 0
    /\ col' = 0
    /\ lastDirection' = START
    /\ visitedCoordinates' = <<>>
    /\ directions' = <<>>

\* findPath is called once more on the Pathfinder that has just returned
FindPathAgain ==
    /\ pc = "done"
    /\ Len(returned) < MaxCalls
    /\ BeginCall
    /\ UNCHANGED <<grid, inst, startPoint, endPoint, returned>>

\* new Pathfinder(gridParam)  with the same rows, and findPath is called on it
NewPathfinder ==
    /\ pc = "done"
    /\ Len(returned) < MaxCalls
    /\ inst + 1 \in Instances
    /\ inst' = inst + 1
    /\ startPoint' = constructor(startPoint, inst + 1)
    /\ endPoint' = constructor(endPoint, inst + 1)
    /\ BeginCall
    /\ UNCHANGED <<grid, returned>>

NextCalls ==
    \/ Next
    \/ FindPathAgain
    \/ NewPathfinder

SpecCalls == Init /\ [][NextCalls]_vars

-----------------------------------------------------------------------------
(* What the properties below speak of *)

Done == pc = "done"

\* what the last finished findPath call returned
Result == returned[Len(returned)].value

HasData(value) == "customData" \in DOMAIN value

HasError(value) == "errorDetails" \in DOMAIN value

Positions(visited) == [i \in DOMAIN visited |-> <<visited[i].row, visited[i].col>>]

RECURSIVE Characters(_, _)
\* the characters of the first n entries of a trace, read in order
Characters(visited, n) ==
    IF n = 0 THEN "" ELSE Characters(visited, n - 1) \o visited[n].character

\* the cells of the grid that hold a tile
Tiles ==
    {p \in UNION {{<<r, c>> : c \in 0..(Len(grid[r + 1]) - 1)} : r \in 0..(Len(grid) - 1)} :
        getPoint(p[1], p[2]) # BLANK}

TilesWith(character) == {p \in Tiles : getPoint(p[1], p[2]) = character}

IsLetterTile(p) == getPoint(p[1], p[2]) \in UPPERCASE_ALPHABET

\* the tiles next to p
Around(p) ==
    {q \in {<<p[1] - 1, p[2]>>, <<p[1] + 1, p[2]>>, <<p[1], p[2] - 1>>, <<p[1], p[2] + 1>>} :
        getPoint(q[1], q[2]) # BLANK}

SameRow(p, S) == \A q \in S : q[1] = p[1]

SameCol(p, S) == \A q \in S : q[2] = p[2]

\* the tile at p fits the shape of its surroundings: the ends of the route
\* touch one tile; a road touches the two tiles on its axis; a turn touches
\* one tile on each axis; a letter touches any two
FitsShape(p, character, around) ==
    CASE character \in {START_CHARACTER, END_CHARACTER} -> Cardinality(around) = 1
      [] character = HORIZONTAL_ROAD -> Cardinality(around) = 2 /\ SameRow(p, around)
      [] character = VERTICAL_ROAD -> Cardinality(around) = 2 /\ SameCol(p, around)
      [] character = CROSSROAD ->
            /\ Cardinality(around) = 2
            /\ ~SameRow(p, around)
            /\ ~SameCol(p, around)
      [] character \in UPPERCASE_ALPHABET -> Cardinality(around) = 2
      [] OTHER -> FALSE

RECURSIVE Follow(_, _, _)
\* the route read off the diagram, given the part of it already read: from
\* its last tile to the one tile next to it that is not the tile before, for
\* no more steps than limit
Follow(route, n, limit) ==
    IF getPoint(route[n][1], route[n][2]) = END_CHARACTER \/ n > limit
    THEN route
    ELSE Follow(Append(route,
                       CHOOSE q \in Around(route[n]) : n = 1 \/ q # route[n - 1]),
                n + 1, limit)

\* the route of a diagram that has one '@'
Route == Follow(<<CHOOSE p \in TilesWith(START_CHARACTER) : TRUE>>, 1, Cardinality(Tiles))

\* the grid encodes a single well-formed simple route: one '@', one 'x', every
\* tile of the shape its surroundings ask for, and all of them on the one
\* route from '@' to 'x'
WellFormedRoute ==
    /\ Cardinality(TilesWith(START_CHARACTER)) = 1
    /\ Cardinality(TilesWith(END_CHARACTER)) = 1
    /\ \A p \in Tiles : FitsShape(p, getPoint(p[1], p[2]), Around(p))
    /\ Len(Route) = Cardinality(Tiles)

RECURSIVE LettersAlong(_, _)
\* the letters on the first n tiles of a route, in order
LettersAlong(route, n) ==
    IF n = 0 THEN ""
    ELSE LettersAlong(route, n - 1)
         \o (IF IsLetterTile(route[n]) THEN getPoint(route[n][1], route[n][2]) ELSE "")

RECURSIVE FirstVisits(_, _)
\* the letters of the first n entries of a trace, each entry counting only if
\* no earlier entry is at its coordinate
FirstVisits(visited, n) ==
    IF n = 0 THEN ""
    ELSE FirstVisits(visited, n - 1)
         \o (IF /\ visited[n].character \in UPPERCASE_ALPHABET
                /\ \A j \in 1..(n - 1) :
                       <<visited[j].row, visited[j].col>> # <<visited[n].row, visited[n].col>>
             THEN visited[n].character
             ELSE "")

\* the trace is the route tile by tile and the letters are the route's
RouteWalked(route, visited, letters) ==
    /\ Positions(visited) = route
    /\ \A i \in DOMAIN route :
           visited[i].character = getPoint(route[i][1], route[i][2])
    /\ letters = LettersAlong(route, Len(route))

\* the grid passes the validation of Pathfinder.setup: every tile is of the
\* grammar, there is one '@', it is a valid start point, and there is an 'x'
ValidationPasses ==
    /\ \A p \in Tiles : getPoint(p[1], p[2]) \in VALID_GRID_CHARACTERS
    /\ Cardinality(TilesWith(START_CHARACTER)) = 1
    /\ \A p \in TilesWith(START_CHARACTER) : isStartPointValid(p[1], p[2]).isSuccessful
    /\ TilesWith(END_CHARACTER) # {}

\* the index of the grid among the valid examples, 0 if it is none of them
ExampleIndex ==
    IF \E i \in DOMAIN VALID_EXAMPLES : VALID_EXAMPLES[i] = grid
    THEN CHOOSE i \in DOMAIN VALID_EXAMPLES : VALID_EXAMPLES[i] = grid
    ELSE 0

-----------------------------------------------------------------------------
(* C1..C9: one findPath call on a fresh Pathfinder (Spec) *)

\* C1: on a grid that encodes a single well-formed simple route from '@' to
\* 'x', findPath returns success, the trace is the route tile by tile, and
\* collectedLetters is the letters of the route in order; and each valid
\* example yields the path and the letters its test expects
C1_SimpleRouteIsWalked ==
    /\ (pc \in {"done", "diverged"} /\ WellFormedRoute) =>
          /\ Done
          /\ Result.isSuccessful
          /\ RouteWalked(Route, Result.customData.visitedCoordinates,
                         Result.customData.collectedLetters)
    /\ (pc \in {"done", "diverged"} /\ ExampleIndex # 0) =>
          /\ Done
          /\ Result.isSuccessful
          /\ Characters(Result.customData.visitedCoordinates,
                        Len(Result.customData.visitedCoordinates))
                 = validTests[ExampleIndex].expectedPath
          /\ Result.customData.collectedLetters = validTests[ExampleIndex].expectedLetters

\* a route with a turn on a '+', a turn on a letter and a road has been walked
C1_Witness ==
    /\ Done
    /\ WellFormedRoute
    /\ Result.isSuccessful
    /\ Len(Route) >= 5
    /\ Result.customData.collectedLetters # ""
    /\ \E i \in DOMAIN Route : getPoint(Route[i][1], Route[i][2]) = CROSSROAD
    /\ \E i \in 2..(Len(Route) - 1) :
           /\ IsLetterTile(Route[i])
           /\ Route[i - 1][1] # Route[i + 1][1]
           /\ Route[i - 1][2] # Route[i + 1][2]

\* C2: on every grid that passes validation the walk terminates: it never
\* comes back to a state it has been in, from which the loop of walkPath,
\* being deterministic, would repeat its steps without end and reach neither
\* FINISH nor ERROR
C2_WalkTerminates == ValidationPasses => pc # "diverged"

\* C3: the walk never comes to process a tile at a position and with a
\* lastDirection at which it has processed a tile before
C3_NoStateTwice == pc = "walk" => ~Repeating

\* a letter tile stands at two entries of the trace
LetterRevisited ==
    \E i, j \in DOMAIN visitedCoordinates :
        /\ i < j
        /\ visitedCoordinates[i].character \in UPPERCASE_ALPHABET
        /\ visitedCoordinates[i].row = visitedCoordinates[j].row
        /\ visitedCoordinates[i].col = visitedCoordinates[j].col

\* C4 as stated: no grid makes the walk visit the same letter tile more than
\* once in one trace
C4_LetterVisitedOnce == ~LetterRevisited

\* C4 as amended: no grid that encodes a single well-formed simple route
\* makes the walk visit the same letter tile more than once in one trace
C4_LetterVisitedOnceOnSimpleRoute == LetterRevisited => ~WellFormedRoute

\* a simple route with two letter tiles has been walked to its end
C4_Witness ==
    /\ Done
    /\ Result.isSuccessful
    /\ WellFormedRoute
    /\ Cardinality({p \in Tiles : IsLetterTile(p)}) >= 2
    /\ \A p \in Tiles : \E i \in DOMAIN visitedCoordinates :
           <<visitedCoordinates[i].row, visitedCoordinates[i].col>> = p

\* C5: collectedLetters holds, in the order of the trace, the character of
\* every trace entry that is a letter and whose coordinate no earlier entry
\* has: once per letter coordinate however often it is crossed, and once for
\* each coordinate the same character stands at
C5_LettersOncePerCoordinate ==
    \A k \in DOMAIN returned :
        HasData(returned[k].value) =>
            returned[k].value.customData.collectedLetters
                = FirstVisits(returned[k].value.customData.visitedCoordinates,
                              Len(returned[k].value.customData.visitedCoordinates))

\* a returned trace crosses a letter tile twice and meets one letter at two
\* coordinates
C5_Witness ==
    /\ Done
    /\ HasData(Result)
    /\ LetterRevisited
    /\ \E i, j \in DOMAIN visitedCoordinates :
           /\ visitedCoordinates[i].character \in UPPERCASE_ALPHABET
           /\ visitedCoordinates[i].character = visitedCoordinates[j].character
           /\ <<visitedCoordinates[i].row, visitedCoordinates[i].col>>
                  # <<visitedCoordinates[j].row, visitedCoordinates[j].col>>

\* C6: a returned trace starts with the '@' at the start position; it holds
\* an 'x' entry if and only if the result is success, and that entry is its
\* last
C6_StopsAtFirstEnd ==
    (Done /\ HasData(Result)) =>
        /\ Result.customData.visitedCoordinates # <<>>
        /\ Result.customData.visitedCoordinates[1]
               = [row |-> startPoint[inst].row, col |-> startPoint[inst].col,
                  character |-> START_CHARACTER]
        /\ Result.isSuccessful
               <=> \E i \in DOMAIN Result.customData.visitedCoordinates :
                       Result.customData.visitedCoordinates[i].character = END_CHARACTER
        /\ \A i \in DOMAIN Result.customData.visitedCoordinates :
               Result.customData.visitedCoordinates[i].character = END_CHARACTER
                   => i = Len(Result.customData.visitedCoordinates)

\* the walk has ended on an 'x' that has tiles beyond it
C6_Witness ==
    /\ Done
    /\ Result.isSuccessful
    /\ Cardinality(Around(<<row, col>>)) >= 2
    /\ getPoint(row, col) = END_CHARACTER

\* C7: a walk that ends in ERROR returns failure with the whole trace, the
\* failing tile being its last entry, the letters of that trace, the
\* position of the failing tile as the error's row and col, and a message
C7_ErrorCarriesPartialTrace ==
    (Done /\ ~Result.isSuccessful /\ HasData(Result)) =>
        /\ Result.customData.visitedCoordinates = visitedCoordinates
        /\ visitedCoordinates # <<>>
        /\ visitedCoordinates[Len(visitedCoordinates)]
               = [row |-> row, col |-> col, character |-> getPoint(row, col)]
        /\ Result.customData.collectedLetters
               = FirstVisits(visitedCoordinates, Len(visitedCoordinates))
        /\ HasError(Result)
        /\ DOMAIN Result.errorDetails = {"row", "col", "errorMessage"}
        /\ Result.errorDetails.row = row
        /\ Result.errorDetails.col = col
        /\ Result.errorDetails.errorMessage # ""

\* a walk has failed on a road after collecting a letter
C7_Witness ==
    /\ Done
    /\ ~Result.isSuccessful
    /\ HasData(Result)
    /\ Len(visitedCoordinates) >= 3
    /\ Result.customData.collectedLetters # ""
    /\ getPoint(row, col) \in {HORIZONTAL_ROAD, VERTICAL_ROAD}

\* C8: on a grid that fails validation findPath ends before the walk begins:
\* no transition is computed, and the failure returned has no trace and no
\* letters
C8_ValidationFailureShortCircuits ==
    \/ /\ pc \in {"setup", "done"}
       /\ visitedCoordinates = <<>>
       /\ directions = <<>>
       /\ lastDirection = START
       /\ Done => /\ ~Result.isSuccessful
                  /\ ~HasData(Result)
                  /\ HasError(Result)
    \/ ValidationPasses

\* findPath has returned the failure of a start point that is not valid, on
\* a grid that holds an 'x'
C8_Witness ==
    /\ Done
    /\ ~ValidationPasses
    /\ Cardinality(TilesWith(START_CHARACTER)) = 1
    /\ TilesWith(END_CHARACTER) # {}
    /\ \A p \in Tiles : getPoint(p[1], p[2]) \in VALID_GRID_CHARACTERS
    /\ ~HasData(Result)

\* C9: findPath never throws: every call returns a value, and a value with
\* isSuccessful false carries an error with a message
C9_FailureIsReturned ==
    /\ pc \in {"setup", "walk", "done"}
    /\ \A k \in DOMAIN returned :
           ~returned[k].value.isSuccessful =>
               /\ HasError(returned[k].value)
               /\ returned[k].value.errorDetails.errorMessage # ""

-----------------------------------------------------------------------------
(* C10: several calls, on one Pathfinder or on new ones (SpecCalls) *)

\* the k-th call returned is the first on its Pathfinder
FirstCall(k) == \A j \in 1..(k - 1) : returned[j].inst # returned[k].inst

\* C10: the first findPath calls of Pathfinder objects constructed from the
\* same rows return the same value: the same isSuccessful, the same trace,
\* the same letters, the same error
C10_FreshInstancesAgree ==
    \A j, k \in DOMAIN returned :
        (FirstCall(j) /\ FirstCall(k)) => returned[j].value = returned[k].value

\* two Pathfinder objects have each walked the same lettered route to its end
C10_Witness ==
    /\ Len(returned) = 2
    /\ returned[1].inst # returned[2].inst
    /\ returned[2].value.isSuccessful
    /\ returned[2].value.customData.collectedLetters # ""
    /\ Len(returned[2].value.customData.visitedCoordinates) >= 4

-----------------------------------------------------------------------------
(* C11: a second call on the same Pathfinder (SpecCalls) *)

\* C11: a Pathfinder holds no state across calls: every findPath call on one
\* Pathfinder returns what the earlier calls on it returned
C11_SecondCallAgrees ==
    \A j, k \in DOMAIN returned :
        returned[j].inst = returned[k].inst => returned[j].value = returned[k].value

-----------------------------------------------------------------------------
(* C12..C20: the validation sweep and Grid.getPoint (Spec) *)

\* every cell of the grid, blank or not
Cells ==
    UNION {{<<r, c>> : c \in 0..(Len(grid[r + 1]) - 1)} : r \in 0..(Len(grid) - 1)}

\* the character stored at a cell
Stored(p) == grid[p[1] + 1][p[2] + 1]

\* the characters the grammar of the design admits: letters, the five marks
\* and the space
DesignGrammar == UPPERCASE_ALPHABET \cup {"@", "x", "+", "-", "|", " "}

\* a cell before another in the order of the sweep: top to bottom, and left
\* to right within a row
Before(p, q) == p[1] < q[1] \/ (p[1] = q[1] /\ p[2] < q[2])

\* C12: on a grid with a cell whose character is outside the grammar,
\* findPath fails with the grammar error that names the character and the
\* (row, col) of such a cell
C12_InvalidCharacterReported ==
    (Done /\ \E p \in Cells : Stored(p) \notin DesignGrammar) =>
        /\ ~Result.isSuccessful
        /\ \E p \in Cells :
               /\ Stored(p) \notin DesignGrammar
               /\ Result = FailureAt(p[1], p[2], "Invalid character found: " \o Stored(p))

\* the '@' cells of the grid
Starts == TilesWith(START_CHARACTER)

\* the first and the second '@' in the order of the sweep
FirstStart == CHOOSE p \in Starts : \A q \in Starts \ {p} : Before(p, q)

SecondStart ==
    CHOOSE p \in Starts \ {FirstStart} : \A q \in Starts \ {FirstStart, p} : Before(p, q)

\* no cell that the sweep passes before q makes it stop: each is of the
\* grammar of runGridProcessing, and the first '@' is a valid start point
NoFailureBefore(q) ==
    /\ \A p \in Tiles : Before(p, q) => getPoint(p[1], p[2]) \in VALID_GRID_CHARACTERS
    /\ Before(FirstStart, q) =>
           isStartPointValid(FirstStart[1], FirstStart[2]).isSuccessful

DuplicateStartError == FailureMessage("There are more than one start points.")

\* C13 as stated: on a grid with two '@' findPath fails with the error of
\* more than one start point
C13_TwoStartsReported ==
    (Done /\ Cardinality(Starts) >= 2) => Result = DuplicateStartError

\* C13 as amended: on a grid with two '@' findPath fails without a trace,
\* and with the error of more than one start point when no cell before the
\* second '@' stops the sweep
C13_TwoStartsFail ==
    (Done /\ Cardinality(Starts) >= 2) =>
        /\ ~Result.isSuccessful
        /\ ~HasData(Result)
        /\ NoFailureBefore(SecondStart) => Result = DuplicateStartError

\* findPath has reported the second '@' of a grid that also holds an 'x'
C13_Witness ==
    /\ Done
    /\ Cardinality(Starts) >= 2
    /\ TilesWith(END_CHARACTER) # {}
    /\ Result = DuplicateStartError

\* C14: the sweep stops at the second '@' with the duplicate-start error,
\* which has no position, whatever is around that '@', and the start point
\* recorded is still the first '@'
C14_SecondStartFailsAtOnce ==
    (Done /\ Cardinality(Starts) >= 2 /\ NoFailureBefore(SecondStart)) =>
        /\ Result = DuplicateStartError
        /\ <<sweepRow, sweepCol>> = SecondStart
        /\ startPoint[inst] = Point(FirstStart[1], FirstStart[2])

\* the sweep has stopped at a second '@' that would not be a valid start point
C14_Witness ==
    /\ Done
    /\ Cardinality(Starts) >= 2
    /\ Result = DuplicateStartError
    /\ ~isStartPointValid(SecondStart[1], SecondStart[2]).isSuccessful
    /\ SecondStart[1] > FirstStart[1]

\* the four cells next to p
Adjacent(p) ==
    {<<p[1] - 1, p[2]>>, <<p[1] + 1, p[2]>>, <<p[1], p[2] - 1>>, <<p[1], p[2] + 1>>}

\* q, next to p, holds a road of the other axis: a '-' above or below p, a
\* '|' to its left or right
WrongAxisRoad(p, q) ==
    \/ q[2] = p[2] /\ getPoint(q[1], q[2]) = HORIZONTAL_ROAD
    \/ q[1] = p[1] /\ getPoint(q[1], q[2]) = VERTICAL_ROAD

\* the real neighbour of the design: not blank and no road of the other axis
DesignReal(p, q) == getPoint(q[1], q[2]) # BLANK /\ ~WrongAxisRoad(p, q)

\* the cell is crossed: each of the four cells next to it is a real
\* neighbour of it
Crossed(q) == \A n \in Adjacent(q) : DesignReal(q, n)

\* the real neighbour with the exception for crossings: not blank, and a
\* road of the other axis only if that road is itself crossed
CrossingReal(p, q) ==
    getPoint(q[1], q[2]) # BLANK /\ (WrongAxisRoad(p, q) => Crossed(q))

\* the failure that reports n real neighbours of the '@' at p
StartPointError(p, n) ==
    FailureAt(p[1], p[2],
        "Start point (" \o ToString(p[1]) \o ", " \o ToString(p[2]) \o ") has "
        \o ToString(n) \o " neighbors, but it must have exactly 1.")

\* the result is a failure of the validation located at p
RejectedAt(p) ==
    /\ ~Result.isSuccessful
    /\ ~HasData(Result)
    /\ "row" \in DOMAIN Result.errorDetails
    /\ <<Result.errorDetails.row, Result.errorDetails.col>> = p

\* the sweep has come to the first '@' and findPath has returned
FirstStartJudged == Done /\ Starts # {} /\ NoFailureBefore(FirstStart)

\* C15 as stated: the first '@' is accepted if and only if exactly one cell
\* next to it is a real neighbour, not blank and no road of the other axis;
\* otherwise findPath fails at the '@' with the count of real neighbours
C15_StartNeedsOneRealNeighbor ==
    FirstStartJudged =>
        IF Cardinality({q \in Adjacent(FirstStart) : DesignReal(FirstStart, q)}) = 1
        THEN ~RejectedAt(FirstStart)
        ELSE Result = StartPointError(FirstStart,
                 Cardinality({q \in Adjacent(FirstStart) : DesignReal(FirstStart, q)}))

\* C15 as amended: the same with a road of the other axis counted as real
\* when that road is itself crossed
C15_StartNeedsOneNeighborToMoveTo ==
    FirstStartJudged =>
        IF Cardinality({q \in Adjacent(FirstStart) : CrossingReal(FirstStart, q)}) = 1
        THEN ~RejectedAt(FirstStart)
        ELSE Result = StartPointError(FirstStart,
                 Cardinality({q \in Adjacent(FirstStart) : CrossingReal(FirstStart, q)}))

\* a '@' whose only neighbour is a crossed road of the other axis has been
\* accepted and walked from
C15_Witness ==
    /\ FirstStartJudged
    /\ HasData(Result)
    /\ \E q \in Adjacent(FirstStart) : WrongAxisRoad(FirstStart, q) /\ Crossed(q)
    /\ Cardinality({q \in Adjacent(FirstStart) : DesignReal(FirstStart, q)}) = 0

\* the 'x' cells of the grid
Ends == TilesWith(END_CHARACTER)

\* no cell makes the sweep stop: every tile is of the grammar of
\* runGridProcessing, and there is no '@' or one '@' that is a valid start
NoCellError ==
    /\ \A p \in Tiles : getPoint(p[1], p[2]) \in VALID_GRID_CHARACTERS
    /\ Cardinality(Starts) <= 1
    /\ \A p \in Starts : isStartPointValid(p[1], p[2]).isSuccessful

Contains(s, t) ==
    \E i \in 1..(Len(s) - Len(t) + 1) : SubSeq(s, i, i + Len(t) - 1) = t

\* C17: on a grid without '@' or without 'x', and with no other error of
\* validation, findPath fails with a message that contains
\* 'Start or end point not found'
C17_StartOrEndNotFound ==
    (Done /\ NoCellError /\ (Starts = {} \/ Ends = {})) =>
        /\ ~Result.isSuccessful
        /\ Contains(Result.errorDetails.errorMessage, "Start or end point not found")

\* the 'x' cells that the sweep, at cell q, has passed
EndsBefore(q) == {p \in Ends : Before(p, q)}

\* the last cell of a set in the order of the sweep
LastOf(S) == CHOOSE p \in S : \A q \in S \ {p} : Before(q, p)

\* the end point recorded once the sweep has passed the 'x' cells in S
RecordedEnd(S) == IF S = {} THEN Undefined ELSE Point(LastOf(S)[1], LastOf(S)[2])

\* C18: the end point recorded is, at every moment, the last 'x' the sweep
\* has passed, and a grid is not rejected for holding more than one 'x'
C18_LastEndRecorded ==
    /\ endPoint[inst] = RecordedEnd(EndsBefore(<<sweepRow, sweepCol>>))
    /\ (Done /\ ValidationPasses) => HasData(Result)

\* a walk has ended with success on an 'x' that is not the recorded one
C18_Witness ==
    /\ Done
    /\ Cardinality(Ends) >= 2
    /\ Result.isSuccessful
    /\ endPoint[inst] # Point(row, col)
    /\ endPoint[inst] = RecordedEnd(Ends)

\* C19 as stated: in one run of findPath the start point and the end point
\* are each written at most once, and neither is written during the walk
C19_PointsWrittenOnce ==
    [][/\ startPoint[inst].defined => startPoint' = startPoint
       /\ endPoint[inst].defined => endPoint' = endPoint
       /\ pc # "setup" => startPoint' = startPoint /\ endPoint' = endPoint]_vars

\* C19 as amended: in one run of findPath the start point is written at most
\* once, the end point only by the sweep and only with the 'x' it is at, and
\* neither is written once the sweep is over
C19_PointsWrittenBySweep ==
    [][/\ startPoint[inst].defined => startPoint' = startPoint
       /\ endPoint' # endPoint =>
              /\ pc = "setup" /\ pc' = "setup"
              /\ endPoint'[inst].defined
              /\ getPoint(endPoint'[inst].row, endPoint'[inst].col) = END_CHARACTER
              /\ <<endPoint'[inst].row, endPoint'[inst].col + 1>> = <<sweepRow', sweepCol'>>
       /\ pc # "setup" => startPoint' = startPoint /\ endPoint' = endPoint]_vars

\* a walk is under way on a grid with two 'x', the second of them recorded
C19_Witness ==
    /\ pc = "walk"
    /\ Len(visitedCoordinates) >= 2
    /\ Cardinality(Ends) >= 2
    /\ startPoint[inst].defined
    /\ endPoint[inst] = RecordedEnd(Ends)

\* the widest row of the grid
Width == Max({0} \cup {Len(grid[r]) : r \in DOMAIN grid})

\* (r, c) is a cell of the grid
InGrid(r, c) ==
    /\ r \in 0..(Len(grid) - 1)
    /\ c \in 0..(Len(grid[r + 1]) - 1)

\* C20: getPoint returns the blank value for a negative row or column, for a
\* row past the last, for a column past the end of its row and for a stored
\* space, and the stored character in every other case
C20_GetPointIsBoundsSafe ==
    \A r \in (-2)..(Len(grid) + 1) :
        \A c \in (-2)..(Width + 1) :
            getPoint(r, c) = IF InGrid(r, c) /\ Stored(<<r, c>>) # " "
                             THEN Stored(<<r, c>>)
                             ELSE BLANK

\* a walk has read a grid that has rows of different lengths and a stored
\* space, and has read past its borders
C20_Witness ==
    /\ Done
    /\ HasData(Result)
    /\ \E r \in DOMAIN grid : Len(grid[r]) < Width
    /\ \E p \in Cells : Stored(p) = " "
    /\ \E i \in DOMAIN visitedCoordinates :
           \/ visitedCoordinates[i].row = 0
           \/ visitedCoordinates[i].col = 0

(***************************************************************************)
(* Grid.runGridProcessing with arbitrary handler tables (SpecSweep)         *)
(*                                                                         *)
(* Pathfinder hands runGridProcessing two exact handlers and no pattern    *)
(* handler.  The function itself takes any tables: here it is applied to   *)
(* small tables of exact and pattern handlers, and the handlers it invokes *)
(* are logged in the order of invocation.                                  *)
(***************************************************************************)

\* A CharacterProcess is one of three behaviours: it succeeds, it fails with
\* a detail that holds a message only, or it fails with a detail that names
\* the cell it was called for.
ProcessKinds == {"succeeds", "failsPlain", "failsHere"}

Process(kind, r, c) ==
    CASE kind = "succeeds" -> Success
      [] kind = "failsPlain" -> FailureMessage("Processing failed")
      [] kind = "failsHere" -> FailureAt(r, c, "Invalid letter")

\* /[A-Z]/ and /B/ restricted to the characters of the swept grids.
LetterPattern == {"A", "B"}

OnlyBPattern == {"B"}

SweepPatterns == {LetterPattern, OnlyBPattern}

SweepValidCharacters == {"A", "B"}

SweepAlphabet == {"A", "B", "?"}

SweepCells == (0..1) \X (0..1)

MaxSweepTiles == 3

SweepGrid(tiles) ==
    [r \in 1..2 |->
        [c \in 1..2 |->
            IF <<r - 1, c - 1>> \in DOMAIN tiles THEN tiles[<<r - 1, c - 1>>] ELSE " "]]

MaxPatterns == 2

\* The tables of one call: characterProcesses maps characters to handlers,
\* regExpProcesses lists the patterns in insertion order.
ProcessTables ==
    {[characterProcesses |-> exact, regExpProcesses |-> patterns,
      validCharacters |-> SweepValidCharacters] :
        exact \in UNION {[keys -> ProcessKinds] : keys \in SUBSET {"A"}},
        patterns \in UNION {[1..n -> [regExp : SweepPatterns, process : ProcessKinds]] :
                               n \in 0..MaxPatterns}}

Invocation(table, key, r, c) == [table |-> table, key |-> key, row |-> r, col |-> c]

hasCharacterProcessNever(character, tables) == FALSE

\* characterProcesses.has(character)
hasCharacterProcess(character, tables) ==
    character \in DOMAIN tables.characterProcesses

characterFailure(result) ==
    IF HasError(result)
    THEN [isSuccessful |-> FALSE, errorDetails |-> result.errorDetails]
    ELSE [isSuccessful |-> FALSE]

regExpFailureOfProcess(r, c, character, result) == characterFailure(result)

\* The failure returned when a pattern handler fails.
regExpFailure(r, c, character, result) ==
    FailureAt(r, c, "Validation failed for: " \o character)

RECURSIVE runRegExpProcesses(_, _, _, _, _, _)
\* The inner loop over regExpProcesses.keys(), from the k-th pattern on.
runRegExpProcesses(tables, k, character, r, c, log) ==
    IF k > Len(tables.regExpProcesses)
    THEN [stopped |-> FALSE, invoked |-> log]
    ELSE IF character \notin tables.regExpProcesses[k].regExp
    THEN runRegExpProcesses(tables, k + 1, character, r, c, log)
    ELSE IF Process(tables.regExpProcesses[k].process, r, c).isSuccessful
    THEN runRegExpProcesses(tables, k + 1, character, r, c,
                            Append(log, Invocation("regExp", k, r, c)))
    ELSE [stopped |-> TRUE,
          result |-> regExpFailure(r, c, character,
                                   Process(tables.regExpProcesses[k].process, r, c)),
          invoked |-> Append(log, Invocation("regExp", k, r, c))]

isSkippedNever(character) == FALSE

\* character === '': the cell is passed over
isSkipped(character) == character = BLANK

RECURSIVE runGridProcessingFrom(_, _, _, _, _)
RECURSIVE afterRegExpProcesses(_, _, _, _, _)
\* The two nested loops of runGridProcessing from cell (r, c) on; the value
\* holds the ProcessResult and the handlers invoked so far.
runGridProcessingFrom(g, r, c, tables, log) ==
    IF r >= Len(g)
    THEN [result |-> Success, invoked |-> log]
    ELSE IF c >= Len(g[r + 1])
    THEN runGridProcessingFrom(g, r + 1, 0, tables, log)
    ELSE IF isSkipped(getPointOf(g, r, c))
    THEN runGridProcessingFrom(g, r, c + 1, tables, log)
    ELSE IF getPointOf(g, r, c) \notin tables.validCharacters
    THEN [result |-> FailureAt(r, c, "Invalid character found: " \o getPointOf(g, r, c)),
          invoked |-> log]
    ELSE IF hasCharacterProcess(getPointOf(g, r, c), tables)
    THEN IF Process(tables.characterProcesses[getPointOf(g, r, c)], r, c).isSuccessful
         THEN runGridProcessingFrom(g, r, c + 1, tables,
                  Append(log, Invocation("character", getPointOf(g, r, c), r, c)))
         ELSE [result |-> characterFailure(
                              Process(tables.characterProcesses[getPointOf(g, r, c)], r, c)),
               invoked |-> Append(log, Invocation("character", getPointOf(g, r, c), r, c))]
    ELSE afterRegExpProcesses(g, r, c, tables,
             runRegExpProcesses(tables, 1, getPointOf(g, r, c), r, c, log))

afterRegExpProcesses(g, r, c, tables, outcome) ==
    IF outcome.stopped
    THEN [result |-> outcome.result, invoked |-> outcome.invoked]
    ELSE runGridProcessingFrom(g, r, c + 1, tables, outcome.invoked)

runGridProcessing(g, tables) == runGridProcessingFrom(g, 0, 0, tables, <<>>)

Swept(tables, outcome) ==
    [inst |-> inst, value |-> outcome.result, tables |-> tables,
     invoked |-> outcome.invoked]

\* One call of grid.runGridProcessing(characterProcesses, regExpProcesses,
\* validCharacters) on a grid built by new Grid(grid).
RunGridProcessing ==
    /\ pc = "grid"
    /\ \E tables \in ProcessTables :
           returned' = Append(returned, Swept(tables, runGridProcessing(grid, tables)))
    /\ pc' = "swept"
    /\ UNCHANGED <<grid, inst, startPoint, endPoint, sweepRow, sweepCol, row, col,
                   lastDirection, visitedCoordinates, directions>>

InitSweep ==
    /\ \E cells \in SUBSET SweepCells :
           /\ Cardinality(cells) <= MaxSweepTiles
           /\ \E tiles \in [cells -> SweepAlphabet] : grid = SweepGrid(tiles)
    /\ inst = 1
    /\ startPoint = [i \in Instances |-> Undefined]
    /\ endPoint = [i \in Instances |-> Undefined]
    /\ pc = "grid"
    /\ sweepRow = 0
    /\ sweepCol = 0
    /\ row = 0
    /\ col = 0
    /\ lastDirection = START
    /\ visitedCoordinates = <<>>
    /\ directions = <<>>
    /\ returned = <<>>

NextSweep == RunGridProcessing

SpecSweep == InitSweep /\ [][NextSweep]_vars

SweptDone == pc = "swept"

-----------------------------------------------------------------------------
(* C21, C22: the order and the errors of runGridProcessing (SpecSweep) *)

\* the call of runGridProcessing that has returned
SweepCall == returned[Len(returned)]

\* a cell whose character has an exact handler in the tables
ExactHandled(p, tables) == Stored(p) \in DOMAIN tables.characterProcesses

\* the patterns of the tables that match the character of a cell
MatchingPatterns(p, tables) ==
    {k \in DOMAIN tables.regExpProcesses : Stored(p) \in tables.regExpProcesses[k].regExp}

InvalidCell(p, tables) == Stored(p) \notin tables.validCharacters

ExactFails(p, tables) ==
    /\ ~InvalidCell(p, tables)
    /\ ExactHandled(p, tables)
    /\ tables.characterProcesses[Stored(p)] # "succeeds"

PatternFails(p, tables) ==
    /\ ~InvalidCell(p, tables)
    /\ ~ExactHandled(p, tables)
    /\ \E k \in MatchingPatterns(p, tables) : tables.regExpProcesses[k].process # "succeeds"

\* the tiles at which the sweep cannot go on
FailingCells(tables) ==
    {p \in Tiles : InvalidCell(p, tables) \/ ExactFails(p, tables) \/ PatternFails(p, tables)}

FirstOf(S) == CHOOSE p \in S : \A q \in S : q = p \/ Before(p, q)

\* what the sweep reports when it stops at a cell
CellError(p, tables) ==
    IF InvalidCell(p, tables)
    THEN FailureAt(p[1], p[2], "Invalid character found: " \o Stored(p))
    ELSE IF ExactHandled(p, tables)
    THEN [isSuccessful |-> FALSE,
          errorDetails |-> Process(tables.characterProcesses[Stored(p)], p[1], p[2]).errorDetails]
    ELSE FailureAt(p[1], p[2], "Validation failed for: " \o Stored(p))

InvokedAt(call, p) == {i \in DOMAIN call.invoked :
                          call.invoked[i].row = p[1] /\ call.invoked[i].col = p[2]}

InvokedCell(call, i) == <<call.invoked[i].row, call.invoked[i].col>>

\* a tile the sweep reaches and hands to at least one handler
Handled(p, tables) ==
    /\ ~InvalidCell(p, tables)
    /\ ExactHandled(p, tables) \/ MatchingPatterns(p, tables) # {}
    /\ \A f \in FailingCells(tables) : f = p \/ Before(p, f)

SweepInOrder(call) ==
    /\ call.value.isSuccessful <=> FailingCells(call.tables) = {}
    /\ FailingCells(call.tables) # {} =>
           call.value = CellError(FirstOf(FailingCells(call.tables)), call.tables)
    /\ \A i, j \in DOMAIN call.invoked :
           i < j => \/ InvokedCell(call, i) = InvokedCell(call, j)
                    \/ Before(InvokedCell(call, i), InvokedCell(call, j))
    /\ \A p \in Cells : InvokedAt(call, p) # {} <=> (p \in Tiles /\ Handled(p, call.tables))

ExactHandlerOnly(call) ==
    \A p \in Cells :
        ExactHandled(p, call.tables) =>
            /\ Cardinality(InvokedAt(call, p)) <= 1
            /\ \A i \in InvokedAt(call, p) :
                   /\ call.invoked[i].table = "character"
                   /\ call.invoked[i].key = Stored(p)

\* C21: runGridProcessing sweeps the cells left to right and then top to
\* bottom and stops at the first failing cell in that order: the error it
\* returns is that cell's and no handler is invoked for a later cell; a cell
\* whose character has an exact handler is handed to that handler only, never
\* to a pattern handler, even when a pattern matches the character
C21_SweepStopsAtFirstFailure ==
    SweptDone => SweepInOrder(SweepCall) /\ ExactHandlerOnly(SweepCall)

\* a sweep that stopped at a cell with handled tiles before and after it, and
\* that handed a character with a matching pattern to its exact handler
C21_Witness ==
    /\ SweptDone
    /\ \E f \in FailingCells(SweepCall.tables) :
           /\ f = FirstOf(FailingCells(SweepCall.tables))
           /\ \E p, q \in Tiles :
                  /\ Before(p, f) /\ Before(f, q)
                  /\ InvokedAt(SweepCall, p) # {}
                  /\ ExactHandled(p, SweepCall.tables)
                  /\ MatchingPatterns(p, SweepCall.tables) # {}
                  /\ ~InvalidCell(q, SweepCall.tables)
                  /\ MatchingPatterns(q, SweepCall.tables) # {}
                  /\ InvokedAt(SweepCall, q) = {}

\* the detail the first failing pattern handler of a cell supplied
FirstFailingPattern(p, tables) ==
    CHOOSE k \in MatchingPatterns(p, tables) :
        /\ tables.regExpProcesses[k].process # "succeeds"
        /\ \A j \in MatchingPatterns(p, tables) :
               j < k => tables.regExpProcesses[j].process = "succeeds"

StoppedAt(call) == FirstOf(FailingCells(call.tables))

ErrorOfHandler(call, p) ==
    /\ ExactFails(p, call.tables) =>
           /\ ~call.value.isSuccessful
           /\ call.value.errorDetails =
                  Process(call.tables.characterProcesses[Stored(p)], p[1], p[2]).errorDetails
           /\ call.tables.characterProcesses[Stored(p)] = "failsPlain" =>
                  call.value.errorDetails = [errorMessage |-> "Processing failed"]
    /\ PatternFails(p, call.tables) =>
           /\ ~call.value.isSuccessful
           /\ call.value.errorDetails =
                  [row |-> p[1], col |-> p[2],
                   errorMessage |-> "Validation failed for: " \o Stored(p)]

\* C22: when an exact handler fails, runGridProcessing returns that handler's
\* error detail as it is; when a pattern handler fails, it returns the generic
\* 'Validation failed for: <character>' with the row and col of the cell,
\* whatever detail the handler supplied
C22_HandlerErrorDetail ==
    (SweptDone /\ FailingCells(SweepCall.tables) # {}) =>
        ErrorOfHandler(SweepCall, StoppedAt(SweepCall))

\* a sweep stopped by a pattern handler whose own detail holds no position and
\* another message
C22_Witness ==
    /\ SweptDone
    /\ FailingCells(SweepCall.tables) # {}
    /\ PatternFails(StoppedAt(SweepCall), SweepCall.tables)
    /\ StoppedAt(SweepCall) # <<0, 0>>
    /\ SweepCall.tables.regExpProcesses[
           FirstFailingPattern(StoppedAt(SweepCall), SweepCall.tables)].process = "failsPlain"
    /\ SweepCall.value.errorDetails.errorMessage = "Validation failed for: B"

\* a sweep stopped by an exact handler whose detail holds a message only
C22_ExactWitness ==
    /\ SweptDone
    /\ FailingCells(SweepCall.tables) # {}
    /\ ExactFails(StoppedAt(SweepCall), SweepCall.tables)
    /\ SweepCall.value = FailureMessage("Processing failed")

-----------------------------------------------------------------------------
(* C23..C28: one step of the walk (Spec) *)

\* walkPath has run at least one iteration
Walked == visitedCoordinates # <<>>

\* the tile of the last iteration of walkPath, and the lastDirection move was
\* called with
StepFrom ==
    <<visitedCoordinates[Len(visitedCoordinates)].row,
      visitedCoordinates[Len(visitedCoordinates)].col>>

StepTile == visitedCoordinates[Len(visitedCoordinates)].character

StepDirection == directions[Len(directions)]

\* the last iteration ended the walk with an error
StepFailed == Done /\ ~Result.isSuccessful

\* the last iteration ended the walk with this error, located at its tile
StepError(message) ==
    /\ StepFailed
    /\ Result.errorDetails =
           [row |-> StepFrom[1], col |-> StepFrom[2], errorMessage |-> message]
    /\ <<row, col>> = StepFrom

\* the last iteration moved one cell in a direction, which became lastDirection
StepMoved(direction) ==
    /\ ~StepFailed
    /\ <<row, col>> = Shift(StepFrom, direction)
    /\ lastDirection = direction

\* the directions in which the tile has a neighbour the design calls real
DesignRealMoves(p) == {d \in Moves : DesignReal(p, Shift(p, d))}

\* the same with a crossed road of the other axis counted as real
CrossingRealMoves(p) == {d \in Moves : CrossingReal(p, Shift(p, d))}

TurnCountError == "Turn must have exactly 2 roads coming into it"

\* C23 as stated: the walk on a '+' whose real neighbours, roads of the other
\* axis discounted, are not exactly two fails with the error 'Turn must have
\* exactly 2 roads coming into it' located at the '+'
C23_TurnNeedsTwoRealNeighbors ==
    (Walked /\ StepTile = CROSSROAD /\ Cardinality(DesignRealMoves(StepFrom)) # 2) =>
        StepError(TurnCountError)

\* C23 as amended: the same with a road of the other axis counted as real
\* when that road is itself crossed
C23_TurnNeedsTwoNeighborsToMoveTo ==
    (Walked /\ StepTile = CROSSROAD /\ Cardinality(CrossingRealMoves(StepFrom)) # 2) =>
        StepError(TurnCountError)

\* the walk has failed on a '+' with three neighbours to move to, none of
\* them a road of the other axis
C23_Witness ==
    /\ Walked
    /\ StepTile = CROSSROAD
    /\ Cardinality(CrossingRealMoves(StepFrom)) = 3
    /\ DesignRealMoves(StepFrom) = CrossingRealMoves(StepFrom)
    /\ StepError(TurnCountError)

\* the neighbours of the tile to move to lie on one axis only
StraightPass(p) == CrossingRealMoves(p) \in {{UP, DOWN}, {LEFT, RIGHT}}

\* C24: the walk on a '+' with exactly two real neighbours that are the up
\* and down ones, with no real horizontal neighbour, or the left and right
\* ones, with no real vertical neighbour, fails with the error 'Turn must not
\* be a straight path' located at the '+'
C24_StraightTurnRejected ==
    (Walked /\ StepTile = CROSSROAD /\ StraightPass(StepFrom)) =>
        StepError("Turn must not be a straight path")

\* the last iteration was on a '+' that passed checkTurn
TurnTaken == Walked /\ StepTile = CROSSROAD /\ checkTurn(StepFrom[1], StepFrom[2]).isSuccessful

\* the step of the walk on a tile where it must leave the axis it came on:
\* the first side in the order given that is in the set, an error at the tile
\* if neither is
SideStep(real, first, second, message) ==
    IF first \in real THEN StepMoved(first)
    ELSE IF second \in real THEN StepMoved(second)
    ELSE StepError(message)

TurnStep(real) ==
    /\ StepDirection \in {UP, DOWN} =>
           SideStep(real, LEFT, RIGHT, "No valid path found at turn")
    /\ StepDirection \in {LEFT, RIGHT} =>
           SideStep(real, UP, DOWN, "No valid path found at turn")
    /\ StepDirection \in Moves
    /\ ~StepMoved(StepDirection)

\* C25 as stated: on a '+' that passed local validation the walk leaves the
\* axis it came on: coming UP or DOWN it moves LEFT if that neighbour is
\* real, else RIGHT if that one is; coming LEFT or RIGHT it moves UP if real,
\* else DOWN; it fails at the '+' if neither side is real, and it never goes
\* straight on
C25_TurnChangesAxis == TurnTaken => TurnStep(DesignRealMoves(StepFrom))

\* C25 as amended: the same with a road of the other axis counted as real
\* when that road is itself crossed
C25_TurnChangesAxisToMove == TurnTaken => TurnStep(CrossingRealMoves(StepFrom))

\* the walk came down or up to a '+' with nothing to its left and went right
C25_Witness ==
    /\ TurnTaken
    /\ StepDirection \in {UP, DOWN}
    /\ LEFT \notin CrossingRealMoves(StepFrom)
    /\ StepMoved(RIGHT)

\* the walk came to a '+' that passed checkTurn and has no side to move to
C25_NoSideWitness ==
    /\ TurnTaken
    /\ CrossingRealMoves(StepFrom) = {UP, DOWN}
    /\ StepError("No valid path found at turn")

\* the last iteration was on a '-' or '|'
RoadTaken == Walked /\ StepTile \in {HORIZONTAL_ROAD, VERTICAL_ROAD}

RoadError(direction) ==
    "Cannot continue "
    \o (CASE direction = UP -> "upward"
          [] direction = DOWN -> "downward"
          [] direction = LEFT -> "left"
          [] OTHER -> "right")
    \o ": path ends unexpectedly"

\* the cell ahead of the last iteration
StepAhead == Shift(StepFrom, StepDirection)

RoadStep(open) ==
    /\ StepDirection \in Moves
    /\ IF open THEN StepMoved(StepDirection) ELSE StepError(RoadError(StepDirection))

\* C26 as stated: on a road tile the walk moves one cell in lastDirection and
\* keeps lastDirection whenever the neighbour in that direction is not blank,
\* and fails with 'Cannot continue <direction>: path ends unexpectedly' at
\* the road tile exactly when that neighbour is blank
C26_RoadContinuesOntoNonBlank ==
    RoadTaken => RoadStep(getPoint(StepAhead[1], StepAhead[2]) # BLANK)

\* C26 as amended: the walk moves on exactly when the neighbour ahead is not
\* blank and is no road of the other axis, or is such a road that is itself
\* crossed
C26_RoadContinuesWhereItCanMove ==
    RoadTaken => RoadStep(CrossingReal(StepFrom, StepAhead))

\* the walk on a road has stopped before a road of the other axis
C26_Witness ==
    /\ RoadTaken
    /\ WrongAxisRoad(StepFrom, StepAhead)
    /\ StepError(RoadError(StepDirection))

\* the walk on a road has moved onto a crossed road of the other axis
C26_CrossingWitness ==
    /\ RoadTaken
    /\ WrongAxisRoad(StepFrom, StepAhead)
    /\ StepMoved(StepDirection)

\* the last iteration was on a letter
LetterTaken == Walked /\ StepTile \in UPPERCASE_ALPHABET

\* the two directions across the one the walk came in
Sides(direction) == IF direction \in {UP, DOWN} THEN {LEFT, RIGHT} ELSE {UP, DOWN}

LetterStep(available) ==
    /\ StepDirection \in Moves
    /\ IF StepDirection \in available
       THEN StepMoved(StepDirection)
       ELSE IF StepDirection \in {UP, DOWN}
       THEN SideStep(available, LEFT, RIGHT, "No valid path found at letter")
       ELSE SideStep(available, UP, DOWN, "No valid path found at letter")

\* C27: on a letter the walk goes on in lastDirection whenever it can move
\* that way, also when it could turn; only otherwise it turns, LEFT before
\* RIGHT when it came UP or DOWN and UP before DOWN when it came LEFT or
\* RIGHT; it fails with 'No valid path found at letter' at the letter when it
\* can move to none of the three
C27_LetterContinuesBeforeTurning == LetterTaken => LetterStep(CrossingRealMoves(StepFrom))

\* the walk went straight on over a letter that had a side to turn to
C27_Witness ==
    /\ LetterTaken
    /\ StepDirection \in CrossingRealMoves(StepFrom)
    /\ Sides(StepDirection) \cap CrossingRealMoves(StepFrom) # {}
    /\ StepMoved(StepDirection)

\* the walk turned on a letter, and failed on a letter
C27_TurnWitness ==
    /\ LetterTaken
    /\ StepDirection \notin CrossingRealMoves(StepFrom)
    /\ \E d \in Sides(StepDirection) : StepMoved(d)

C27_ErrorWitness == LetterTaken /\ StepError("No valid path found at letter")

-----------------------------------------------------------------------------
(***************************************************************************)
(* The handlers called one at a time (SpecExposed)                          *)
(*                                                                         *)
(* TestablePathfinder exposes the protected handlers and predicates of     *)
(* Pathfinder, so that they are called on any grid at any position.        *)
(***************************************************************************)

\* a cell and the four cells next to it
CrossCells == {<<1, 1>>, <<0, 1>>, <<2, 1>>, <<1, 0>>, <<1, 2>>}

CrossAlphabet == {" ", HORIZONTAL_ROAD, VERTICAL_ROAD, START_CHARACTER}

\* every diagram drawn on a cell and the four cells next to it
CrossGrids == {SmallGrid(tiles) : tiles \in [CrossCells -> CrossAlphabet]}

InitExposed ==
    /\ grid \in CrossGrids \cup ExampleGrids
    /\ inst = 1
    /\ startPoint = [i \in Instances |-> Undefined]
    /\ endPoint = [i \in Instances |-> Undefined]
    /\ pc = "exposed"
    /\ sweepRow = 0
    /\ sweepCol = 0
    /\ row \in 0..2
    /\ col \in 0..2
    /\ lastDirection = START
    /\ visitedCoordinates = <<>>
    /\ directions = <<>>
    /\ returned = <<>>

\* one call of an exposed method at (row, col), and the value it returned
Exposed(method, value) ==
    /\ pc = "exposed"
    /\ returned' = Append(returned, [inst |-> inst, method |-> method, value |-> value])
    /\ pc' = "called"
    /\ UNCHANGED <<grid, inst, startPoint, endPoint, sweepRow, sweepCol, row, col,
                   lastDirection, visitedCoordinates, directions>>

\* TestablePathfinder.exposedHandleStartCharacter
exposedHandleStartCharacter ==
    /\ pc = "exposed"
    /\ Exposed("handleStartCharacter", handleStartCharacter(row, col))

\* TestablePathfinder.exposedCanMoveUp
exposedCanMoveUp ==
    /\ pc = "exposed"
    /\ Exposed("canMoveUp", canMoveUp(row, col))

\* TestablePathfinder.exposedCanMoveDown
exposedCanMoveDown ==
    /\ pc = "exposed"
    /\ Exposed("canMoveDown", canMoveDown(row, col))

\* TestablePathfinder.exposedCanMoveLeft
exposedCanMoveLeft ==
    /\ pc = "exposed"
    /\ Exposed("canMoveLeft", canMoveLeft(row, col))

\* TestablePathfinder.exposedCanMoveRight
exposedCanMoveRight ==
    /\ pc = "exposed"
    /\ Exposed("canMoveRight", canMoveRight(row, col))

NextExposed ==
    \/ exposedHandleStartCharacter
    \/ exposedCanMoveUp
    \/ exposedCanMoveDown
    \/ exposedCanMoveLeft
    \/ exposedCanMoveRight

SpecExposed == InitExposed /\ [][NextExposed]_vars

\* an exposed method has returned
Called(method) == pc = "called" /\ returned[Len(returned)].method = method

CalledValue == returned[Len(returned)].value

\* the first direction of the order of getStartingMove that is in the set
FirstMove(real) ==
    IF UP \in real THEN UP
    ELSE IF DOWN \in real THEN DOWN
    ELSE IF LEFT \in real THEN LEFT
    ELSE RIGHT

StartStep(real) ==
    IF real = {}
    THEN CalledValue = [row |-> row, col |-> col, lastDirection |-> ERROR,
                        errorMessage |-> "No valid path found at start"]
    ELSE CalledValue =
             [row |-> RowAfter(row, FirstMove(real)),
              col |-> ColAfter(col, FirstMove(real)),
              lastDirection |-> FirstMove(real)]

StartCalled == Called("handleStartCharacter") /\ getPoint(row, col) = START_CHARACTER

\* C28 as stated: on the '@' the walk moves one cell toward the first real
\* neighbour in the order UP, DOWN, LEFT, RIGHT and sets lastDirection to
\* that move; with no real neighbour it fails with 'No valid path found at
\* start' and the position unchanged
C28_StartMovesToFirstRealNeighbor ==
    StartCalled => StartStep(DesignRealMoves(<<row, col>>))

\* C28 as amended: the same with a road of the other axis counted as real
\* when that road is itself crossed
C28_StartMovesToFirstNeighborToMoveTo ==
    StartCalled => StartStep(CrossingRealMoves(<<row, col>>))

\* from a '@' with a neighbour below and a road of the other axis above, the
\* move is the one down
C28_Witness ==
    /\ StartCalled
    /\ WrongAxisRoad(<<row, col>>, <<row - 1, col>>)
    /\ {DOWN, LEFT, RIGHT} \subseteq CrossingRealMoves(<<row, col>>)
    /\ CalledValue = [row |-> row + 1, col |-> col, lastDirection |-> DOWN]

\* a '@' with nothing to move to
C28_ErrorWitness ==
    /\ StartCalled
    /\ CalledValue.lastDirection = ERROR
    /\ \E d \in Moves : getPoint(RowAfter(row, d), ColAfter(col, d)) # BLANK

-----------------------------------------------------------------------------
(* C29: the length of the trace (Spec) *)

\* C29: the trace of one walk never holds more entries than the grid holds
\* non-blank cells
C29_TraceWithinTiles == Len(visitedCoordinates) <= Cardinality(Tiles)

-----------------------------------------------------------------------------
(* C30: canMoveUp, canMoveDown, canMoveLeft and canMoveRight (SpecExposed) *)

\* the method canMove<direction>
CanMoveMethod(direction) ==
    CASE direction = UP -> "canMoveUp"
      [] direction = DOWN -> "canMoveDown"
      [] direction = LEFT -> "canMoveLeft"
      [] OTHER -> "canMoveRight"

\* what canMove is to return for the neighbour q of p
CanMoveTo(p, q) ==
    IF getPoint(q[1], q[2]) = BLANK THEN FALSE
    ELSE IF ~WrongAxisRoad(p, q) THEN TRUE
    ELSE \A n \in Adjacent(q) :
             /\ getPoint(n[1], n[2]) # BLANK
             /\ ~WrongAxisRoad(q, n)

\* C30: canMoveUp/Down/Left/Right(row, col) is false when the neighbour in
\* that direction is blank or off the grid, true when it is not blank and no
\* road of the other axis, and for a road of the other axis true exactly when
\* the four neighbours of that road are all non-blank and none of them is a
\* road of the other axis relative to it
C30_CanMove ==
    \A d \in Moves :
        Called(CanMoveMethod(d)) =>
            CalledValue = CanMoveTo(<<row, col>>, Shift(<<row, col>>, d))

\* canMove has returned true for a crossed road of the other axis
C30_Witness ==
    \E d \in Moves :
        /\ Called(CanMoveMethod(d))
        /\ WrongAxisRoad(<<row, col>>, Shift(<<row, col>>, d))
        /\ CalledValue = TRUE

\* canMove has returned false for a road of the other axis with four
\* neighbours, one of them a road of the other axis relative to it
C30_UncrossedWitness ==
    \E d \in Moves :
        /\ Called(CanMoveMethod(d))
        /\ WrongAxisRoad(<<row, col>>, Shift(<<row, col>>, d))
        /\ \A n \in Adjacent(Shift(<<row, col>>, d)) : getPoint(n[1], n[2]) # BLANK
        /\ CalledValue = FALSE

\* canMove has returned false for a cell off the grid
C30_OffGridWitness ==
    /\ Called("canMoveUp")
    /\ row = 0
    /\ CalledValue = FALSE

-----------------------------------------------------------------------------
(* C31: blank cells in the sweep (SpecSweep) *)

\* the cells of the grid that hold a space
BlankCells == {p \in Cells : Stored(p) = " "}

\* no handler was invoked for the cell and the result is no error at it
PassedOver(call, p) ==
    /\ InvokedAt(call, p) = {}
    /\ (HasError(call.value) /\ "row" \in DOMAIN call.value.errorDetails) =>
           <<call.value.errorDetails.row, call.value.errorDetails.col>> # p

\* every tile is in the grammar and every handler it is handed to succeeds
AllTilesPass(tables) == FailingCells(tables) = {}

\* C31: runGridProcessing skips every blank cell: the grammar check and the
\* exact and pattern handlers are not applied to it, so a grid whose other
\* cells all pass is processed successfully
C31_BlankCellsSkipped ==
    SweptDone =>
        /\ \A p \in BlankCells : PassedOver(SweepCall, p)
        /\ (BlankCells # {} /\ AllTilesPass(SweepCall.tables)) => SweepCall.value = Success

\* a sweep has succeeded on a grid with a blank cell before a handled tile,
\* under a grammar that does not hold the blank value
C31_Witness ==
    /\ SweptDone
    /\ BLANK \notin SweepCall.tables.validCharacters
    /\ \E p \in BlankCells : \E q \in Tiles : Before(p, q) /\ InvokedAt(SweepCall, q) # {}
    /\ SweepCall.value = Success

-----------------------------------------------------------------------------
(* C32: what the validation examines (Spec) *)

\* setup has succeeded: findPath has entered walkPath
ValidationSucceeded == pc \in {"walk", "diverged"} \/ (Done /\ HasData(Result))

\* setup has failed: findPath has returned without a trace
ValidationFailed == Done /\ ~HasData(Result)

\* every tile matches the grammar pattern, the grid holds one '@', the '@'
\* has one neighbour to move to, and the grid holds an 'x'
Validated ==
    /\ \A p \in Tiles : getPoint(p[1], p[2]) \in VALID_GRID_CHARACTERS
    /\ Cardinality(Starts) = 1
    /\ \A p \in Starts : Cardinality(CrossingRealMoves(p)) = 1
    /\ Ends # {}

\* the '+' tiles that checkTurn rejects
MalformedTurns == {p \in TilesWith(CROSSROAD) : ~checkTurn(p[1], p[2]).isSuccessful}

\* C32: validation succeeds if and only if every non-blank cell matches the
\* grammar pattern, the grid holds exactly one '@', that '@' has exactly one
\* connectable neighbour and the grid holds at least one 'x'; the shapes of
\* turns, roads and letters are not examined, so a malformed '+' never
\* reached does not make findPath fail
C32_ValidationExaminesStartAndEnd ==
    /\ ValidationSucceeded => Validated
    /\ ValidationFailed => ~Validated
    /\ (Done /\ Validated /\ ~Result.isSuccessful) =>
           /\ Walked
           /\ <<Result.errorDetails.row, Result.errorDetails.col>> = StepFrom

\* findPath has succeeded on a grid with a malformed '+' off the path
C32_Witness ==
    /\ Done
    /\ Result.isSuccessful
    /\ MalformedTurns # {}
    /\ MalformedTurns \cap Range(Positions(visitedCoordinates)) = {}

-----------------------------------------------------------------------------
(* C33..C37: the shape of the trace (Spec) *)

\* the position of the i-th entry of the trace
TraceAt(i) == <<visitedCoordinates[i].row, visitedCoordinates[i].col>>

\* the walk stands on a tile it has moved to and not yet processed
Standing == pc \in {"walk", "diverged"}

\* C33: every transition that is neither the last nor an error moves one cell
\* to a neighbouring position, in the direction that becomes lastDirection:
\* two consecutive trace entries differ by one row or one column, as the
\* direction recorded for the step says
C33_StepsMoveOneCell ==
    /\ \A i \in 1..(Len(visitedCoordinates) - 1) :
           /\ directions[i + 1] \in Moves
           /\ TraceAt(i + 1) = Shift(TraceAt(i), directions[i + 1])
    /\ (Walked /\ Standing) =>
           /\ lastDirection \in Moves
           /\ <<row, col>> = Shift(StepFrom, lastDirection)

\* a walk of at least four entries that has moved along both axes
C33_Witness ==
    /\ Len(visitedCoordinates) >= 4
    /\ \E i, j \in DOMAIN directions :
           directions[i] \in {UP, DOWN} /\ directions[j] \in {LEFT, RIGHT}

\* the entry lies inside the grid and holds the non-blank character stored
\* at its position
EntryOnTile(entry) ==
    /\ InGrid(entry.row, entry.col)
    /\ entry.character = Stored(<<entry.row, entry.col>>)
    /\ entry.character \notin {BLANK, " "}

\* C34: the walk never steps onto a blank cell or off the grid: every trace
\* entry lies inside the grid and its character is the non-blank character
\* stored at its position
C34_TraceOnTiles ==
    /\ \A i \in DOMAIN visitedCoordinates : EntryOnTile(visitedCoordinates[i])
    /\ Standing => EntryOnTile(CurrentEntry)

\* a walk has ended after passing a tile with a blank cell and a cell off the
\* grid next to it
C34_Witness ==
    /\ Done
    /\ Result.isSuccessful
    /\ \E i \in DOMAIN visitedCoordinates :
           /\ \E q \in Adjacent(TraceAt(i)) : q[1] >= 0 /\ q[2] >= 0 /\ ~InGrid(q[1], q[2])
           /\ \E q \in Adjacent(TraceAt(i)) : InGrid(q[1], q[2]) /\ Stored(q) = " "

\* the entries of the trace that hold the '@'
StartEntries == {i \in DOMAIN visitedCoordinates :
                    visitedCoordinates[i].character = START_CHARACTER}

\* C35: the '@' appears in a trace exactly once, as its first entry: the
\* walk never comes back to the start tile
C35_StartEnteredOnce ==
    /\ Walked => StartEntries = {1}
    /\ (Walked /\ Standing) => Tile # START_CHARACTER

Opposite(direction) ==
    CASE direction = UP -> DOWN
      [] direction = DOWN -> UP
      [] direction = LEFT -> RIGHT
      [] direction = RIGHT -> LEFT
      [] OTHER -> direction

\* the last iteration was on a road, a turn or a letter and moved on
MovedOn ==
    /\ Walked
    /\ Standing
    /\ StepTile \in {HORIZONTAL_ROAD, VERTICAL_ROAD, CROSSROAD} \cup UPPERCASE_ALPHABET

\* C36: a transition on a road, a turn or a letter never turns the walk
\* round: the new lastDirection is never the opposite of the one the tile
\* was entered with
C36_NeverReverses ==
    /\ MovedOn => lastDirection # Opposite(StepDirection)
    /\ \A i \in 2..(Len(directions) - 1) :
           visitedCoordinates[i].character # START_CHARACTER =>
               directions[i + 1] # Opposite(directions[i])

\* the walk has turned on a letter or a '+' and has since moved on
C36_Witness ==
    /\ MovedOn
    /\ \E i \in 2..(Len(directions) - 1) :
           /\ visitedCoordinates[i].character \in {CROSSROAD} \cup UPPERCASE_ALPHABET
           /\ directions[i + 1] \in Sides(directions[i])

\* the messages of the default branches of getNextTurnMove and getNextRoadMove
InvalidDirectionMessages ==
    {"Invalid direction for turn", "Invalid direction for road"}

\* findPath has returned a failure carrying one of these messages
InvalidDirectionReported ==
    /\ StepFailed
    /\ "errorDetails" \in DOMAIN Result
    /\ "errorMessage" \in DOMAIN Result.errorDetails
    /\ Result.errorDetails.errorMessage \in InvalidDirectionMessages

\* C37: within findPath only the first '@' step is processed with
\* lastDirection START; every later tile is processed with UP, DOWN, LEFT or
\* RIGHT, so neither 'Invalid direction' failure is ever returned
C37_OnlyFirstStepFromStart ==
    /\ Walked => directions[1] = START
    /\ \A i \in 2..Len(directions) : directions[i] \in Moves
    /\ (Walked /\ Standing) => lastDirection \in Moves
    /\ ~InvalidDirectionReported

\* a walk that has passed a road and a '+' on its way to the end
C37_Witness ==
    /\ Done
    /\ HasData(Result)
    /\ \E i, j \in 2..Len(visitedCoordinates) :
           /\ visitedCoordinates[i].character \in {HORIZONTAL_ROAD, VERTICAL_ROAD}
           /\ visitedCoordinates[j].character = CROSSROAD

\* the '@' entered again, and processed with a direction of the walk
C37_StartAgainWitness ==
    \E i \in 2..Len(visitedCoordinates) :
        /\ visitedCoordinates[i].character = START_CHARACTER
        /\ directions[i] \in Moves

====
